---- MODULE Spec2Model ----
(***************************************************************************)
(* Air_Traffic_1990_2024: the data preparation and metrics pipeline of     *)
(* src/utils/prep.py, src/utils/metrics.py and src/utils/io.py.            *)
(*                                                                         *)
(* A DataFrame is a record [cols, rows, attrs]: cols is the sequence of    *)
(* column names (strings), rows a sequence of rows, each row a sequence of *)
(* cells aligned with cols, attrs the metadata attached by the preparers. *)
(* A cell is a tagged record: Num(n), Str(s), NaN, Ts(y, m) or NaT.        *)
(* Strings are TLA+ strings handled character by character with Len,      *)
(* SubSeq and \o, as the pandas .str accessors handle them.               *)
(***************************************************************************)
EXTENDS Integers, Sequences, FiniteSets, TLC

VARIABLES raw, df, out, pc

vars == <<raw, df, out, pc>>

(***************************************************************************)
(* Bounds of the model.                                                    *)
(***************************************************************************)
MaxNameLen == 3

MaxDrift == 1

MaxRows == 2

MaxShareRows == 3

MaxVal == 2

MaxTopN == 3

MaxYears == 3

\* baseline_year of recovery_vs_baseline_year and of kpis_apt
BaselineYear == 2019

\* the rows recent_yoy needs: the last value and the one 12 months before it
YoyWindow == 13

\* the n of kpis_apt's topn_share
TopAirports == 3

(***************************************************************************)
(* Characters and strings.                                                 *)
(***************************************************************************)
\* U+FEFF, the byte-order mark: one character, not whitespace, without case.
BOM == "^"

UpperAlpha == "ABCDEFGHIJKLMNOPQRSTUVWXYZ"

LowerAlpha == "abcdefghijklmnopqrstuvwxyz"

Digits == "0123456789"

Char(s, i) == SubSeq(s, i, i)

\* the characters of the model in code point order
CodePoints == "\t\n\f\r -0123456789" \o UpperAlpha \o "_" \o LowerAlpha \o BOM

CharSet == {Char(CodePoints, i) : i \in 1..Len(CodePoints)}

\* ord(c), up to the gaps between the characters of the model
OrdOf == [c \in CharSet |-> CHOOSE i \in 1..Len(CodePoints) : Char(CodePoints, i) = c]

Ord(c) == OrdOf[c]

\* str.isspace of one character
IsSpace(c) == c \in {" ", "\t", "\n", "\r", "\f"}

LowerOf ==
    [c \in CharSet |->
        IF \E i \in 1..Len(UpperAlpha) : Char(UpperAlpha, i) = c
        THEN Char(LowerAlpha, CHOOSE i \in 1..Len(UpperAlpha) : Char(UpperAlpha, i) = c)
        ELSE c]

LowerChar(c) == LowerOf[c]

RECURSIVE MapChars(_, _, _)
\* the string s with every character equal to old replaced by the string new
MapChars(s, old, new) ==
    IF s = "" THEN ""
    ELSE (IF Char(s, 1) = old THEN new ELSE Char(s, 1))
         \o MapChars(SubSeq(s, 2, Len(s)), old, new)

RECURSIVE StrLower(_)
StrLower(s) ==
    IF s = "" THEN "" ELSE LowerChar(Char(s, 1)) \o StrLower(SubSeq(s, 2, Len(s)))

RECURSIVE LStrip(_)
LStrip(s) ==
    IF s # "" /\ IsSpace(Char(s, 1)) THEN LStrip(SubSeq(s, 2, Len(s))) ELSE s

RECURSIVE RStrip(_)
RStrip(s) ==
    IF s # "" /\ IsSpace(Char(s, Len(s))) THEN RStrip(SubSeq(s, 1, Len(s) - 1)) ELSE s

StrStrip(s) == RStrip(LStrip(s))

\* str.replace(old, new) for a one-character pattern
StrReplace(s, old, new) == MapChars(s, old, new)

RECURSIVE Words(_, _)
\* every string of at most n characters of the set alphabet
Words(alphabet, n) ==
    IF n = 0 THEN {""}
    ELSE Words(alphabet, n - 1)
         \cup {w \o c : w \in Words(alphabet, n - 1), c \in alphabet}

(***************************************************************************)
(* Numbers as text.                                                        *)
(***************************************************************************)
DigitOf == [c \in {Char(Digits, i) : i \in 1..Len(Digits)} |->
               (CHOOSE i \in 1..Len(Digits) : Char(Digits, i) = c) - 1]

IsDigit(c) == c \in DOMAIN DigitOf

RECURSIVE NatToStr(_)
NatToStr(n) ==
    IF n < 10 THEN Char(Digits, n + 1)
    ELSE NatToStr(n \div 10) \o Char(Digits, (n % 10) + 1)

\* str(n) of a Python int
IntToStr(n) == IF n < 0 THEN "-" \o NatToStr(0 - n) ELSE NatToStr(n)

RECURSIVE AllDigits(_)
AllDigits(s) == s = "" \/ (IsDigit(Char(s, 1)) /\ AllDigits(SubSeq(s, 2, Len(s))))

RECURSIVE StrToNat(_)
StrToNat(s) ==
    IF s = "" THEN 0
    ELSE 10 * StrToNat(SubSeq(s, 1, Len(s) - 1)) + DigitOf[Char(s, Len(s))]

RECURSIVE ZFill(_, _)
\* str.zfill(width)
ZFill(s, width) == IF Len(s) >= width THEN s ELSE ZFill("0" \o s, width)

RECURSIVE OnlyDigits(_)
\* str.replace(r"[^0-9]", "", regex=True)
OnlyDigits(s) ==
    IF s = "" THEN ""
    ELSE (IF IsDigit(Char(s, 1)) THEN Char(s, 1) ELSE "") \o OnlyDigits(SubSeq(s, 2, Len(s)))

(***************************************************************************)
(* Cells and tables.                                                       *)
(***************************************************************************)
Num(n) == [k |-> "num", v |-> n]

Str(s) == [k |-> "str", v |-> s]

NaN == [k |-> "nan"]

\* a Timestamp (always built from a "YYYY-MM-01" text) and the null date
\* a Timestamp of the calendar day d of month m of year y
Day(y, m, d) == [k |-> "ts", y |-> y, m |-> m, d |-> d]

\* the Timestamp of the first day of a month
Ts(y, m) == Day(y, m, 1)

NaT == [k |-> "nat"]

\* an exception leaving a call
Raise(e) == [k |-> "raise", exc |-> e]

IsNum(c) == c.k = "num"

IsNull(c) == c.k \in {"nan", "nat"}

SeqToSet(s) == {s[i] : i \in DOMAIN s}

\* the dtype pandas gives a column holding these cells
InferDtype(cells) ==
    IF \E i \in DOMAIN cells : cells[i].k = "str" THEN "object"
    ELSE IF \E i \in DOMAIN cells : cells[i].k \in {"ts", "nat"} THEN "datetime64"
    ELSE IF cells = <<>> THEN "object"
    ELSE IF \E i \in DOMAIN cells : cells[i].k = "nan" THEN "float64"
    ELSE "int64"

NoAttrs == [schema_issues |-> <<>>]

\* a table as read from a file: the dtypes are inferred column by column
DataFrame(cols, rows) ==
    [ cols   |-> cols,
      dtypes |-> [i \in DOMAIN cols |-> InferDtype([r \in DOMAIN rows |-> rows[r][i]])],
      rows   |-> rows,
      attrs  |-> NoAttrs ]

\* pd.DataFrame()
EmptyFrame == DataFrame(<<>>, <<>>)

HasCol(d, c) == c \in SeqToSet(d.cols)

ColIdx(d, c) == CHOOSE i \in DOMAIN d.cols : d.cols[i] = c

\* df[c]: the cells of a column, one per row
Col(d, c) == [r \in DOMAIN d.rows |-> d.rows[r][ColIdx(d, c)]]

Dtype(d, c) == d.dtypes[ColIdx(d, c)]

\* df[c] = cells, with the column's new dtype
SetCol(d, c, cells, dtype) ==
    IF HasCol(d, c)
    THEN [d EXCEPT !.dtypes[ColIdx(d, c)] = dtype,
                   !.rows = [r \in DOMAIN d.rows |->
                               [d.rows[r] EXCEPT ![ColIdx(d, c)] = cells[r]]]]
    ELSE [d EXCEPT !.cols = Append(d.cols, c),
                   !.dtypes = Append(d.dtypes, dtype),
                   !.rows = [r \in DOMAIN d.rows |-> Append(d.rows[r], cells[r])]]

\* F of the value t, as a statement df = F(df) has it: t is computed once and
\* F works on the result
Pipe(t, F(_)) == CHOOSE r \in {F(x) : x \in {t}} : TRUE

\* str(x) of one cell of a column of the given dtype (Series.astype(str))
AsStr(c, dtype) ==
    CASE c.k = "str" -> c.v
      [] c.k = "num" -> IF dtype = "float64" THEN IntToStr(c.v) \o ".0" ELSE IntToStr(c.v)
      [] c.k = "nan" -> "nan"
      [] c.k = "nat" -> "NaT"
      [] c.k = "ts"  -> ZFill(IntToStr(c.y), 4) \o "-" \o ZFill(IntToStr(c.m), 2)
                          \o "-" \o ZFill(IntToStr(c.d), 2)

\* df[c].astype(str)
ColAsStr(d, c) == [r \in DOMAIN d.rows |-> AsStr(Col(d, c)[r], Dtype(d, c))]

(***************************************************************************)
(* prep.normalize_cols                                                     *)
(***************************************************************************)
NormalizeName(name) ==
    StrReplace(
        StrReplace(
            StrReplace(StrStrip(StrLower(name)), BOM, ""),
            " ", "_"),
        "-", "_")

normalize_cols(d) ==
    [d EXCEPT !.cols = [i \in DOMAIN d.cols |-> NormalizeName(d.cols[i])]]

(***************************************************************************)
(* Order of strings: Python compares strings code point by code point.     *)
(***************************************************************************)
RECURSIVE StrLess(_, _)
StrLess(a, b) ==
    IF b = "" THEN FALSE
    ELSE IF a = "" THEN TRUE
    ELSE IF Char(a, 1) = Char(b, 1)
         THEN StrLess(SubSeq(a, 2, Len(a)), SubSeq(b, 2, Len(b)))
         ELSE Ord(Char(a, 1)) < Ord(Char(b, 1))

RECURSIVE SortedStrings(_)
\* sorted(S) for a set S of strings
SortedStrings(S) ==
    IF S = {} THEN <<>>
    ELSE LET m == CHOOSE x \in S : \A y \in S \ {x} : StrLess(x, y)
         IN  <<m>> \o SortedStrings(S \ {m})

(***************************************************************************)
(* prep.py: expected schemas and prep.validate_schema                      *)
(***************************************************************************)
APT_EXPECTED ==
    << "annee_mois", "code_aeroport", "nom_aeroport", "zone", "unites_trafic",
       "passagers_depart", "passagers_arrivee", "passagers_transit", "fret_depart",
       "fret_arrivee", "mouvements_passagers", "mouvements_cargo", "source",
       "annee", "mois", "ville", "latitude", "longitude" >>

CIE_EXPECTED ==
    << "anmois", "cie", "cie_nom", "cie_nat", "cie_pays", "cie_pax", "cie_frp", "cie_peq",
       "cie_pkt", "cie_tkt", "cie_peqkt", "cie_vol", "source_file", "annee", "mois" >>

LSN_EXPECTED ==
    << "anmois", "lsn_seg", "lsn_fsc", "lsn_1", "lsn_2", "lsn_2_cont", "lsn_peq", "lsn_peqkt",
       "lsn_pax", "lsn_pkt", "lsn_frp", "lsn_tkt", "lsn_drt", "source_file", "annee", "mois" >>

KNOWN_DERIVED ==
    { "date", "year", "month", "quarter",
      "passagers_total", "fret_total", "has_geo",
      "route_dir", "route_pair" }

\* validate_schema without the allow-list: every column outside the schema is
\* reported under extras
validate_schema_no_allowlist(d, expected) ==
    LET present == SeqToSet(d.cols)
        exp     == {StrLower(expected[i]) : i \in DOMAIN expected}
    IN  [ missing |-> SortedStrings({c \in exp : c \notin present}),
          extras  |-> SortedStrings({c \in present : c \notin exp}),
          derived |-> SortedStrings((present \cap KNOWN_DERIVED) \ exp) ]

\* allowed_extras defaults to None: allowed is KNOWN_DERIVED
validate_schema(d, expected) ==
    LET present == SeqToSet(d.cols)
        exp     == {StrLower(expected[i]) : i \in DOMAIN expected}
        allowed == KNOWN_DERIVED
    IN  [ missing |-> SortedStrings({c \in exp : c \notin present}),
          extras  |-> SortedStrings({c \in present : c \notin exp /\ c \notin allowed}),
          derived |-> SortedStrings((present \cap allowed) \ exp) ]

(***************************************************************************)
(* prep.to_numeric and prep.add_date_fields                                *)
(***************************************************************************)
\* pd.to_numeric(errors="coerce") of one cell: text that is no number becomes NaN
ToNumericCell(c) ==
    IF c.k # "str" THEN c
    ELSE IF c.v # "" /\ AllDigits(c.v) THEN Num(StrToNat(c.v))
    ELSE IF Len(c.v) > 1 /\ Char(c.v, 1) = "-" /\ AllDigits(SubSeq(c.v, 2, Len(c.v)))
         THEN Num(0 - StrToNat(SubSeq(c.v, 2, Len(c.v))))
    ELSE NaN

\* pd.to_numeric(df[c], errors="coerce")
ToNumericCol(d, c) ==
    LET cells == [r \in DOMAIN d.rows |-> ToNumericCell(Col(d, c)[r])]
    IN  SetCol(d, c, cells,
               IF Dtype(d, c) # "object" THEN Dtype(d, c)
               ELSE IF \E r \in DOMAIN cells : cells[r].k = "nan" THEN "float64"
               ELSE "int64")

\* to_numeric coercing every column of the table, listed or not
to_numeric_every_column(d, cols) ==
    LET RECURSIVE every(_, _)
        every(t, i) == IF i > Len(t.cols) THEN t
                       ELSE every(ToNumericCol(t, t.cols[i]), i + 1)
    IN  every(d, 1)

RECURSIVE to_numeric(_, _)
to_numeric(d, cols) ==
    IF cols = <<>> THEN d
    ELSE Pipe(IF HasCol(d, Head(cols)) THEN ToNumericCol(d, Head(cols)) ELSE d,
              LAMBDA t : to_numeric(t, Tail(cols)))

\* the months a Timestamp can hold: 1677-10 .. 2262-04
MinMonth == 1677 * 12 + 10

MaxMonth == 2262 * 12 + 4

\* the days of month m of year y
DaysIn(y, m) ==
    IF m \in {4, 6, 9, 11} THEN 30
    ELSE IF m # 2 THEN 31
    ELSE IF y % 4 = 0 /\ (y % 100 # 0 \/ y % 400 = 0) THEN 29
    ELSE 28

\* pd.to_datetime(text, errors="coerce") of a "YYYY-MM-DD" text: the day of
\* the Timestamp is the day the text names
ToDatetime(s) ==
    IF /\ Len(s) = 10
       /\ AllDigits(SubSeq(s, 1, 4))
       /\ Char(s, 5) = "-"
       /\ AllDigits(SubSeq(s, 6, 7))
       /\ Char(s, 8) = "-"
       /\ AllDigits(SubSeq(s, 9, 10))
       /\ StrToNat(SubSeq(s, 6, 7)) \in 1..12
       /\ StrToNat(SubSeq(s, 9, 10)) \in
              1..DaysIn(StrToNat(SubSeq(s, 1, 4)), StrToNat(SubSeq(s, 6, 7)))
       /\ StrToNat(SubSeq(s, 1, 4)) * 12 + StrToNat(SubSeq(s, 6, 7)) \in MinMonth..MaxMonth
    THEN Day(StrToNat(SubSeq(s, 1, 4)), StrToNat(SubSeq(s, 6, 7)),
             StrToNat(SubSeq(s, 9, 10)))
    ELSE NaT

\* the dtype of Series.dt.year / .dt.month: float as soon as a date is null
DtPartDtype(dates) ==
    IF \E r \in DOMAIN dates : dates[r].k = "nat" THEN "float64" ELSE "int64"

DtYear(dates) == [r \in DOMAIN dates |-> IF dates[r].k = "ts" THEN Num(dates[r].y) ELSE NaN]

DtMonth(dates) == [r \in DOMAIN dates |-> IF dates[r].k = "ts" THEN Num(dates[r].m) ELSE NaN]

\* Series.dt.to_period("Q").astype(str)
DtQuarter(dates) ==
    [r \in DOMAIN dates |->
        IF dates[r].k = "ts"
        THEN Str(IntToStr(dates[r].y) \o "Q" \o IntToStr(((dates[r].m - 1) \div 3) + 1))
        ELSE Str("NaT")]

\* the (annee, mois) branch with the month and the day of the text swapped
DateFromYearMonthSwapped(d) ==
    LET y == ColAsStr(d, "annee")
        m == ColAsStr(d, "mois")
    IN  SetCol(d, "date",
               [r \in DOMAIN d.rows |-> ToDatetime(y[r] \o "-01-" \o ZFill(m[r], 2))],
               "datetime64")

\* the (annee, mois) branch of add_date_fields / _derive_date
DateFromYearMonth(d) ==
    LET y == ColAsStr(d, "annee")
        m == ColAsStr(d, "mois")
    IN  SetCol(d, "date",
               [r \in DOMAIN d.rows |-> ToDatetime(y[r] \o "-" \o ZFill(m[r], 2) \o "-01")],
               "datetime64")

\* the packed-column branch taking the last two digits as the month
DateFromPackedLastTwo(d, c) ==
    Pipe(ColAsStr(d, c), LAMBDA text :
    Pipe([r \in DOMAIN d.rows |-> ZFill(OnlyDigits(text[r]), 6)], LAMBDA s :
    Pipe([r \in DOMAIN d.rows |->
             ToDatetime(SubSeq(s[r], 1, 4) \o "-" \o SubSeq(s[r], Len(s[r]) - 1, Len(s[r]))
                        \o "-01")],
         LAMBDA dates :
    Pipe(SetCol(d, "date", dates, "datetime64"), LAMBDA d1 :
    Pipe(SetCol(d1, "annee", DtYear(dates), DtPartDtype(dates)), LAMBDA d2 :
         SetCol(d2, "mois", DtMonth(dates), DtPartDtype(dates)))))))

\* the packed-column branch of add_date_fields / _derive_date
DateFromPacked(d, c) ==
    Pipe(ColAsStr(d, c), LAMBDA text :
    Pipe([r \in DOMAIN d.rows |-> ZFill(OnlyDigits(text[r]), 6)], LAMBDA s :
    Pipe([r \in DOMAIN d.rows |->
             ToDatetime(SubSeq(s[r], 1, 4) \o "-" \o SubSeq(s[r], 5, 6) \o "-01")],
         LAMBDA dates :
    Pipe(SetCol(d, "date", dates, "datetime64"), LAMBDA d1 :
    Pipe(SetCol(d1, "annee", DtYear(dates), DtPartDtype(dates)), LAMBDA d2 :
         SetCol(d2, "mois", DtMonth(dates), DtPartDtype(dates)))))))

\* io._derive_date
derive_date(d) ==
    IF HasCol(d, "annee") /\ HasCol(d, "mois") THEN DateFromYearMonth(d)
    ELSE IF HasCol(d, "anmois") THEN DateFromPacked(d, "anmois")
    ELSE IF HasCol(d, "annee_mois") THEN DateFromPacked(d, "annee_mois")
    ELSE d

\* add_date_fields looking at the packed column before the (annee, mois) pair
add_date_fields_packed_first(d) ==
    Pipe(IF HasCol(d, "anmois") THEN DateFromPacked(d, "anmois")
         ELSE IF HasCol(d, "annee") /\ HasCol(d, "mois") THEN DateFromYearMonth(d)
         ELSE IF HasCol(d, "annee_mois") THEN DateFromPacked(d, "annee_mois")
         ELSE d, LAMBDA d0 :
         IF HasCol(d0, "date")
         THEN Pipe(Col(d0, "date"), LAMBDA dates :
              Pipe(SetCol(d0, "year", DtYear(dates), DtPartDtype(dates)), LAMBDA d1 :
              Pipe(SetCol(d1, "month", DtMonth(dates), DtPartDtype(dates)), LAMBDA d2 :
                   SetCol(d2, "quarter", DtQuarter(dates), "object"))))
         ELSE d0)

add_date_fields(d) ==
    Pipe(IF HasCol(d, "annee") /\ HasCol(d, "mois") THEN DateFromYearMonth(d)
         ELSE IF HasCol(d, "anmois") THEN DateFromPacked(d, "anmois")
         ELSE IF HasCol(d, "annee_mois") THEN DateFromPacked(d, "annee_mois")
         ELSE d, LAMBDA d0 :
         IF HasCol(d0, "date")
         THEN Pipe(Col(d0, "date"), LAMBDA dates :
              Pipe(SetCol(d0, "year", DtYear(dates), DtPartDtype(dates)), LAMBDA d1 :
              Pipe(SetCol(d1, "month", DtMonth(dates), DtPartDtype(dates)), LAMBDA d2 :
                   SetCol(d2, "quarter", DtQuarter(dates), "object"))))
         ELSE d0)

\* df[num_cols] = df[num_cols].fillna(0), num_cols the columns of a numeric dtype
\* the fill that leaves the period fields year, month, annee and mois alone
FillMeasuresNa(d) ==
    [d EXCEPT !.rows =
        [r \in DOMAIN d.rows |->
            [i \in DOMAIN d.cols |->
                IF d.dtypes[i] \in {"int64", "float64"} /\ d.rows[r][i].k = "nan"
                   /\ d.cols[i] \notin {"year", "month", "annee", "mois"}
                THEN Num(0) ELSE d.rows[r][i]]]]

FillNumericNa(d) ==
    [d EXCEPT !.rows =
        [r \in DOMAIN d.rows |->
            [i \in DOMAIN d.cols |->
                IF d.dtypes[i] \in {"int64", "float64"} /\ d.rows[r][i].k = "nan"
                THEN Num(0) ELSE d.rows[r][i]]]]

\* df[dim_cols].drop_duplicates().reset_index(drop=True), or pd.DataFrame()
RECURSIVE DropDuplicates(_, _)
DropDuplicates(rows, seen) ==
    IF rows = <<>> THEN <<>>
    ELSE IF Head(rows) \in seen THEN DropDuplicates(Tail(rows), seen)
    ELSE <<Head(rows)>> \o DropDuplicates(Tail(rows), seen \cup {Head(rows)})

DimTable(d, dim_cols) ==
    IF \A i \in DOMAIN dim_cols : HasCol(d, dim_cols[i])
    THEN [ cols   |-> dim_cols,
           dtypes |-> [i \in DOMAIN dim_cols |-> Dtype(d, dim_cols[i])],
           rows   |-> DropDuplicates(
                         [r \in DOMAIN d.rows |->
                             [i \in DOMAIN dim_cols |-> Col(d, dim_cols[i])[r]]], {}),
           attrs  |-> NoAttrs ]
    ELSE EmptyFrame

(***************************************************************************)
(* io.load_apt_processed and prep.prep_apt                                 *)
(***************************************************************************)
Bool(b) == [k |-> "bool", v |-> b]

\* an exception is what a failed call hands back instead of a table
IsRaise(x) == "exc" \in DOMAIN x

\* pd.read_csv: a column with one cell that is no number is a column of text,
\* its empty cells staying NaN
ReadCsv(cols, rows) ==
    LET textual(i) == \E r \in DOMAIN rows : rows[r][i].k = "str"
    IN  DataFrame(cols,
            [r \in DOMAIN rows |->
                [i \in DOMAIN cols |->
                    IF textual(i) /\ rows[r][i].k = "num"
                    THEN Str(IntToStr(rows[r][i].v)) ELSE rows[r][i]]])

\* io._normalize: strip, drop the byte-order mark, lower-case
io_normalize(d) ==
    [d EXCEPT !.cols =
        [i \in DOMAIN d.cols |-> StrLower(StrReplace(StrStrip(d.cols[i]), BOM, ""))]]

\* Series.fillna(0)
FillNa0(cells) ==
    [r \in DOMAIN cells |-> IF cells[r].k = "nan" THEN Num(0) ELSE cells[r]]

\* x + y of two cells: numbers add, NaN absorbs, text concatenates with text,
\* text and a number is a TypeError
AddCell(x, y) ==
    CASE x.k = "num" /\ y.k = "num" -> Num(x.v + y.v)
      [] x.k \in {"num", "nan"} /\ y.k \in {"num", "nan"} -> NaN
      [] x.k = "str" /\ y.k = "str" -> Str(x.v \o y.v)
      [] OTHER -> Raise("TypeError")

\* df[total] = df[a].fillna(0) + df[b].fillna(0) when both columns are there
WithTotal(d, total, a, b) ==
    IF ~(HasCol(d, a) /\ HasCol(d, b)) THEN d
    ELSE LET x == FillNa0(Col(d, a))
             y == FillNa0(Col(d, b))
             t == [r \in DOMAIN d.rows |-> AddCell(x[r], y[r])]
         IN  IF \E r \in DOMAIN t : IsRaise(t[r]) THEN Raise("TypeError")
             ELSE SetCol(d, total, t,
                         IF \E r \in DOMAIN t : t[r].k = "str" THEN "object"
                         ELSE IF Dtype(d, a) = "int64" /\ Dtype(d, b) = "int64" THEN "int64"
                         ELSE "float64")

\* load_apt_processed of a file that exists and holds the table d
load_apt_processed(d) ==
    LET d1 == derive_date(io_normalize(d))
        d2 == WithTotal(d1, "passagers_total", "passagers_depart", "passagers_arrivee")
    IN  IF IsRaise(d2) THEN d2
        ELSE WithTotal(d2, "fret_total", "fret_depart", "fret_arrivee")

\* the texts prep_apt reads as a missing value
MissingTokens == {"", " ", "-", "nan", "NaN", "None"}

\* df.replace([...], np.nan).dropna(): the rows that held a token are dropped
ReplaceMissingDropped(d) ==
    [d EXCEPT !.rows =
        SelectSeq(d.rows, LAMBDA row :
            \A i \in DOMAIN row : ~(row[i].k = "str" /\ row[i].v \in MissingTokens))]

\* df.replace([...], np.nan)
ReplaceMissing(d) ==
    [d EXCEPT !.rows =
        [r \in DOMAIN d.rows |->
            [i \in DOMAIN d.cols |->
                IF d.rows[r][i].k = "str" /\ d.rows[r][i].v \in MissingTokens
                THEN NaN ELSE d.rows[r][i]]]]

AptNumeric ==
    << "passagers_depart", "passagers_arrivee", "passagers_transit",
       "fret_depart", "fret_arrivee", "mouvements_passagers", "mouvements_cargo",
       "latitude", "longitude", "annee", "mois" >>

AptDimCols == <<"code_aeroport", "nom_aeroport", "zone", "ville", "latitude", "longitude">>

\* df["has_geo"] = df["latitude"].notna() & df["longitude"].notna()
WithHasGeo(d) ==
    IF HasCol(d, "latitude") /\ HasCol(d, "longitude")
    THEN SetCol(d, "has_geo",
                [r \in DOMAIN d.rows |->
                    Bool(~IsNull(Col(d, "latitude")[r]) /\ ~IsNull(Col(d, "longitude")[r]))],
                "bool")
    ELSE d

\* prep_apt up to the derived totals
AptCleaned(d) ==
    Pipe(normalize_cols(d), LAMBDA d0 :
    Pipe(add_date_fields(d0), LAMBDA d1 :
    Pipe(ReplaceMissing(d1), LAMBDA d2 : to_numeric(d2, AptNumeric))))

\* what prep_apt does once the totals are in place
AptFinished(d) ==
    Pipe(WithHasGeo(d), LAMBDA d1 :
        [d1 EXCEPT !.attrs = [ airport_dim   |-> DimTable(d1, AptDimCols),
                               schema_issues |-> validate_schema(d1, APT_EXPECTED) ]])

\* prep_apt adding the transit passengers to the total, as the older lineage
\* (make_tables) does
prep_apt_with_transit(d) ==
    Pipe(AptCleaned(d), LAMBDA d0 :
    Pipe(WithTotal(d0, "passagers_total", "passagers_depart", "passagers_arrivee"),
         LAMBDA d1 :
    Pipe(IF HasCol(d1, "passagers_transit") /\ HasCol(d1, "passagers_total")
         THEN SetCol(d1, "passagers_total",
                     [r \in DOMAIN d1.rows |->
                         AddCell(Col(d1, "passagers_total")[r],
                                 FillNa0(Col(d1, "passagers_transit"))[r])],
                     "float64")
         ELSE d1, LAMBDA d2 :
    Pipe(WithTotal(d2, "fret_total", "fret_depart", "fret_arrivee"), LAMBDA d3 :
         AptFinished(d3)))))

prep_apt(d) ==
    Pipe(AptCleaned(d), LAMBDA d0 :
    Pipe(WithTotal(d0, "passagers_total", "passagers_depart", "passagers_arrivee"),
         LAMBDA d1 :
    Pipe(WithTotal(d1, "fret_total", "fret_depart", "fret_arrivee"), LAMBDA d2 :
         AptFinished(d2))))

(***************************************************************************)
(* prep.prep_lsn                                                           *)
(***************************************************************************)
\* the arrow and the dash that separate the endpoints in route_dir and route_pair
RouteDirSep == " -> "

RoutePairSep == " -- "

\* one element of df["lsn_1"] < df["lsn_2"]: a comparison with a missing value
\* is False
CellLess(a, b) ==
    CASE IsNull(a) \/ IsNull(b) -> FALSE
      [] a.k = "str" /\ b.k = "str" -> StrLess(a.v, b.v)
      [] a.k = "num" /\ b.k = "num" -> a.v < b.v

RoutePairOf(a, b, sa, sb) ==
    IF CellLess(a, b) THEN sa \o RoutePairSep \o sb ELSE sb \o RoutePairSep \o sa

WithRouteKeys(d) ==
    IF HasCol(d, "lsn_1") /\ HasCol(d, "lsn_2")
    THEN LET s1 == ColAsStr(d, "lsn_1")
             s2 == ColAsStr(d, "lsn_2")
             d1 == SetCol(d, "route_dir",
                          [r \in DOMAIN d.rows |-> Str(s1[r] \o RouteDirSep \o s2[r])],
                          "object")
         IN  SetCol(d1, "route_pair",
                    [r \in DOMAIN d.rows |->
                        Str(RoutePairOf(Col(d, "lsn_1")[r], Col(d, "lsn_2")[r], s1[r], s2[r]))],
                    "object")
    ELSE d

LsnNumeric ==
    <<"lsn_pax", "lsn_pkt", "lsn_tkt", "lsn_frp", "lsn_peq", "lsn_peqkt", "annee", "mois">>

\* prep_lsn up to the numeric coercion
LsnCoerced(d) ==
    Pipe(normalize_cols(d), LAMBDA d0 :
    Pipe(add_date_fields(d0), LAMBDA d1 : to_numeric(d1, LsnNumeric)))

\* prep_lsn validating against the airline schema
prep_lsn_cie_schema(d) ==
    Pipe(LsnCoerced(d), LAMBDA d1 :
    Pipe(WithRouteKeys(d1), LAMBDA d2 :
    Pipe(FillNumericNa(d2), LAMBDA d3 :
         [d3 EXCEPT !.attrs = [schema_issues |-> validate_schema(d3, CIE_EXPECTED)]])))

prep_lsn(d) ==
    Pipe(LsnCoerced(d), LAMBDA d1 :
    Pipe(WithRouteKeys(d1), LAMBDA d2 :
    Pipe(FillNumericNa(d2), LAMBDA d3 :
         [d3 EXCEPT !.attrs = [schema_issues |-> validate_schema(d3, LSN_EXPECTED)]])))

(***************************************************************************)
(* prep.prep_cie                                                           *)
(***************************************************************************)
CieNumeric ==
    << "cie_pax", "cie_pkt", "cie_tkt", "cie_frp", "cie_vol", "cie_peq", "cie_peqkt",
       "annee", "mois" >>

CieDimCols == <<"cie", "cie_nom", "cie_pays">>

\* prep_cie up to the numeric coercion
CieCoerced(d) ==
    Pipe(normalize_cols(d), LAMBDA d0 :
    Pipe(add_date_fields(d0), LAMBDA d1 : to_numeric(d1, CieNumeric)))

\* what prep_cie attaches to the finished table
CieFinished(d) ==
    [d EXCEPT !.attrs = [ airline_dim   |-> DimTable(d, CieDimCols),
                          schema_issues |-> validate_schema(d, CIE_EXPECTED) ]]

\* prep_cie leaving the missing values of the numeric columns in place
prep_cie_no_fill(d) == Pipe(CieCoerced(d), LAMBDA d1 : CieFinished(d1))

\* the airline dimension is cut before the missing numbers are filled
prep_cie(d) ==
    Pipe(CieCoerced(d), LAMBDA d1 :
    Pipe(FillNumericNa(d1), LAMBDA d2 :
    Pipe(CieFinished(d2), LAMBDA d3 :
         [d3 EXCEPT !.attrs.airline_dim = DimTable(d1, CieDimCols)])))

(***************************************************************************)
(* metrics.py: results. A float result is kept exact: Ratio(a, b) is a / b, *)
(* Root(v1, v0, n) is (v1 / v0) ** (1 / n) - 1; a raised exception is a     *)
(* result too.                                                             *)
(***************************************************************************)
Ratio(a, b) == [k |-> "ratio", n |-> a, d |-> b]

Root(v1, v0, n) == [k |-> "root", v1 |-> v1, v0 |-> v0, n |-> n]

Inf == [k |-> "inf"]

\* the optional argument left at None
None == [k |-> "none"]

\* a / b of two floats in numpy: x / 0 is inf or NaN, never an exception
NpDiv(a, b) == IF b # 0 THEN Ratio(a, b) ELSE IF a = 0 THEN NaN ELSE Inf

RatEq(x, a, b) == x.k = "ratio" /\ x.n * b = a * x.d

RatLeq(x, y) ==
    IF (x.d > 0) = (y.d > 0) THEN x.n * y.d <= y.n * x.d ELSE x.n * y.d >= y.n * x.d

RECURSIVE SumOver(_, _)
\* Series.sum() over the rows R: missing values are skipped
SumOver(R, cells) ==
    IF R = {} THEN 0
    ELSE LET r == CHOOSE x \in R : TRUE
         IN  (CASE cells[r].k = "num" -> cells[r].v [] cells[r].k = "nan" -> 0)
                 + SumOver(R \ {r}, cells)

RECURSIVE SumFn(_, _)
SumFn(f, K) ==
    IF K = {} THEN 0
    ELSE LET x == CHOOSE y \in K : TRUE IN f[x] + SumFn(f, K \ {x})

RECURSIVE SumSeq(_)
SumSeq(q) == IF q = <<>> THEN 0 ELSE Head(q) + SumSeq(Tail(q))

\* df.groupby(key, dropna=False)[value].sum(): group key -> sum
GroupSums(d, key, cells) ==
    [g \in SeqToSet(Col(d, key)) |->
        SumOver({r \in DOMAIN d.rows : Col(d, key)[r] = g}, cells)]

\* df.empty
IsEmpty(d) == d.rows = <<>> \/ d.cols = <<>>

\* metrics._to_num of a column
ToNum(d, c) == [r \in DOMAIN d.rows |-> ToNumericCell(Col(d, c)[r])]

\* metrics._yearly_sum: the yearly totals (year -> sum), or the exception
yearly_sum(d, value_col) ==
    IF ~HasCol(d, "year") /\ ~HasCol(d, "date") THEN Raise("ValueError")
    ELSE IF ~HasCol(d, value_col) THEN Raise("KeyError")
    ELSE LET years == IF HasCol(d, "year") THEN Col(d, "year") ELSE DtYear(Col(d, "date"))
             vals  == ToNum(d, value_col)
         IN  [k |-> "ok",
              sums |-> [y \in SeqToSet(years) |->
                          SumOver({r \in DOMAIN d.rows : years[r] = y}, vals)]]

\* the years of the yearly totals that are not null
KnownYears(sums) == {y.v : y \in {x \in DOMAIN sums : x.k = "num"}}

MinOf(S) == CHOOSE x \in S : \A y \in S : x <= y

MaxOf(S) == CHOOSE x \in S : \A y \in S : y <= x

\* y.loc[y["year"] == year, value_col].sum()
TotalOfYear(sums, year) == IF Num(year) \in DOMAIN sums THEN sums[Num(year)] ELSE 0

\* cagr from its line 30 on, with the yearly totals in hand
CagrOf(sums, start_year, end_year) ==
    IF (start_year.k = "none" \/ end_year.k = "none") /\ KnownYears(sums) = {}
    THEN Raise("ValueError")   \* int(NaN)
    ELSE LET s  == IF start_year.k = "none" THEN MinOf(KnownYears(sums)) ELSE start_year.v
             e  == IF end_year.k = "none" THEN MaxOf(KnownYears(sums)) ELSE end_year.v
             v0 == TotalOfYear(sums, s)
             v1 == TotalOfYear(sums, e)
             n  == IF e - s > 1 THEN e - s ELSE 1
         IN  IF {y \in KnownYears(sums) : s <= y /\ y <= e} = {} THEN NaN
             ELSE IF v0 <= 0 \/ v1 <= 0 THEN NaN
             ELSE Root(v1, v0, n)

cagr(d, value_col, start_year, end_year) ==
    LET y == yearly_sum(d, value_col)
    IN  IF y.k = "raise" THEN y
        ELSE IF DOMAIN y.sums = {} \/ \A g \in DOMAIN y.sums : y.sums[g] <= 0 THEN NaN
        ELSE CagrOf(y.sums, start_year, end_year)

recovery_vs_baseline_year(d, value_col, baseline_year) ==
    LET y == yearly_sum(d, value_col)
    IN  IF y.k = "raise" THEN y
        ELSE IF DOMAIN y.sums = {} THEN NaN
        ELSE IF KnownYears(y.sums) = {} THEN Raise("ValueError")   \* int(NaN)
        ELSE LET base == TotalOfYear(y.sums, baseline_year)
                 curr == TotalOfYear(y.sums, MaxOf(KnownYears(y.sums)))
             IN  IF base # 0 THEN Ratio(curr * 100, base) ELSE NaN

\* hhi_concentration summing the shares instead of their squares
hhi_unsquared(d, entity_col, value_col) ==
    IF IsEmpty(d) \/ ~HasCol(d, entity_col) \/ ~HasCol(d, value_col) THEN NaN
    ELSE LET s     == GroupSums(d, entity_col, Col(d, value_col))
             total == SumFn(s, DOMAIN s)
         IN  IF total <= 0 THEN NaN
             ELSE Ratio(SumFn(s, DOMAIN s), total)

hhi_concentration(d, entity_col, value_col) ==
    IF IsEmpty(d) \/ ~HasCol(d, entity_col) \/ ~HasCol(d, value_col) THEN NaN
    ELSE LET s     == GroupSums(d, entity_col, Col(d, value_col))
             total == SumFn(s, DOMAIN s)
         IN  IF total <= 0 THEN NaN
             ELSE Ratio(SumFn([g \in DOMAIN s |-> s[g] * s[g]], DOMAIN s), total * total)

RECURSIVE SortedDesc(_, _)
\* the values of f over K, largest first
SortedDesc(f, K) ==
    IF K = {} THEN <<>>
    ELSE LET m == CHOOSE x \in K : \A y \in K : f[y] <= f[x]
         IN  <<f[m]>> \o SortedDesc(f, K \ {m})

\* Series.head(n): the first n elements; for a negative n, all but the last -n
HeadN(q, n) ==
    IF n >= 0 THEN SubSeq(q, 1, IF n < Len(q) THEN n ELSE Len(q))
    ELSE SubSeq(q, 1, IF Len(q) + n > 0 THEN Len(q) + n ELSE 0)

\* topn_share taking the entities after the first n instead of the first n
topn_share_tail(d, entity_col, value_col, n) ==
    IF IsEmpty(d) \/ ~HasCol(d, entity_col) \/ ~HasCol(d, value_col) THEN NaN
    ELSE LET s     == GroupSums(d, entity_col, Col(d, value_col))
             total == SumFn(s, DOMAIN s)
             q     == SortedDesc(s, DOMAIN s)
         IN  IF total # 0
             THEN Ratio(SumSeq(SubSeq(q, Len(HeadN(q, n)) + 1, Len(q))), total)
             ELSE NaN

topn_share(d, entity_col, value_col, n) ==
    IF IsEmpty(d) \/ ~HasCol(d, entity_col) \/ ~HasCol(d, value_col) THEN NaN
    ELSE LET s     == GroupSums(d, entity_col, Col(d, value_col))
             total == SumFn(s, DOMAIN s)
         IN  IF total # 0 THEN Ratio(SumSeq(HeadN(SortedDesc(s, DOMAIN s), n)), total)
             ELSE NaN

(***************************************************************************)
(* metrics.mom, metrics.recent_yoy and metrics.kpis_apt                    *)
(***************************************************************************)
\* the place of a date in time, the null date after every other
DateKey(c) == IF c.k = "ts" THEN c.y * 12 + c.m ELSE MaxMonth + 1

RECURSIVE SortRowsBy(_, _)
\* the rows R in the order of their keys, rows of one key in their own order
SortRowsBy(key, R) ==
    IF R = {} THEN <<>>
    ELSE LET m == CHOOSE x \in R :
                    \A y \in R : key[x] < key[y] \/ (key[x] = key[y] /\ (x = y \/ x < y))
         IN  <<m>> \o SortRowsBy(key, R \ {m})

\* (last / prev - 1) * 100.0 if prev and prev != 0 else NaN
PctChange(last, prev) ==
    IF last.k = "num" /\ prev.k = "num" /\ prev.v # 0
    THEN Ratio((last.v - prev.v) * 100, prev.v)
    ELSE NaN

\* the value column in the order of df.sort_values("date")
ValuesByDate(d, value_col) ==
    LET order == SortRowsBy([r \in DOMAIN d.rows |-> DateKey(Col(d, "date")[r])],
                            DOMAIN d.rows)
    IN  [i \in DOMAIN order |-> ToNum(d, value_col)[order[i]]]

\* mom reading the rows in the order they come in, without sorting by date
mom_unsorted(d, value_col) ==
    IF ~HasCol(d, "date") \/ IsEmpty(d) THEN NaN
    ELSE LET v == ToNum(d, value_col)
         IN  IF Len(v) < 2 THEN NaN ELSE PctChange(v[Len(v)], v[Len(v) - 1])

mom(d, value_col) ==
    IF ~HasCol(d, "date") \/ IsEmpty(d) THEN NaN
    ELSE LET v == ValuesByDate(d, value_col)
         IN  IF Len(v) < 2 THEN NaN ELSE PctChange(v[Len(v)], v[Len(v) - 1])

recent_yoy(d, value_col) ==
    IF ~HasCol(d, "date") \/ Len(d.rows) < YoyWindow THEN NaN
    ELSE LET v == ValuesByDate(d, value_col)
         IN  PctChange(v[Len(v)], v[Len(v) - YoyWindow + 1])

\* _to_num(d.get(first, d.get(second, 0))): the first of the columns that the
\* table has, as numbers; the scalar 0 when it has none
GetNum(d, names) ==
    IF \E i \in DOMAIN names : HasCol(d, names[i])
    THEN ToNum(d, names[CHOOSE i \in DOMAIN names :
                            HasCol(d, names[i]) /\ \A j \in 1..(i - 1) : ~HasCol(d, names[j])])
    ELSE [r \in DOMAIN d.rows |-> Num(0)]

\* groupby(keys, dropna=False)[value].sum(): key -> sum
SumsBy(keys, cells) ==
    [g \in SeqToSet(keys) |-> SumOver({r \in DOMAIN keys : keys[r] = g}, cells)]

\* the groups of the largest sum: sort_values(ascending=False) may put any of
\* them first
Largest(f) == {g \in DOMAIN f : \A h \in DOMAIN f : f[h] <= f[g]}

\* lines 150-152 of kpis_apt: the totals as kpis_apt computes them again
KpiTotals(d) ==
    LET pax  == [r \in DOMAIN d.rows |->
                   AddCell(GetNum(d, <<"passagers_total", "passagers_depart">>)[r],
                           GetNum(d, <<"passagers_arrivee">>)[r])]
        fret == [r \in DOMAIN d.rows |->
                   AddCell(GetNum(d, <<"fret_total", "fret_depart">>)[r],
                           GetNum(d, <<"fret_arrivee">>)[r])]
    IN  SetCol(SetCol(d, "passagers_total", pax, "float64"), "fret_total", fret, "float64")

\* groupby("date", dropna=False)[...].sum().reset_index().dropna(subset=["date"])
MonthlySeries(d) ==
    LET sums  == SumsBy(Col(d, "date"), Col(d, "passagers_total"))
        dates == {g \in DOMAIN sums : g.k = "ts"}
        order == SortRowsBy([g \in dates |-> DateKey(g)], dates)
    IN  [ cols   |-> <<"date", "passagers_total">>,
          dtypes |-> <<"datetime64", "float64">>,
          rows   |-> [i \in DOMAIN order |-> <<order[i], Num(sums[order[i]])>>],
          attrs  |-> NoAttrs ]

\* ts.loc[ts["passagers_total"].idxmax()]: the first month of the largest sum
PeakMonth(ts) ==
    IF IsEmpty(ts) THEN None
    ELSE ts.rows[CHOOSE i \in DOMAIN ts.rows :
                    /\ \A j \in DOMAIN ts.rows : ts.rows[j][2].v <= ts.rows[i][2].v
                    /\ \A j \in 1..(i - 1) : ts.rows[j][2].v < ts.rows[i][2].v]

\* groupby(["code_aeroport", "nom_aeroport"], dropna=False)["passagers_total"].sum()
\* over the totals of kpis_apt
AirportSums(d) ==
    SumsBy([r \in DOMAIN d.rows |-> <<Col(d, "code_aeroport")[r], Col(d, "nom_aeroport")[r]>>],
           Col(d, "passagers_total"))

\* kpis_apt; top is the airport that sort_values put first
kpis_apt(df_apt, top) ==
    IF IsEmpty(df_apt) THEN [k |-> "empty"]
    ELSE IF ~HasCol(df_apt, "code_aeroport") \/ ~HasCol(df_apt, "nom_aeroport")
            \/ ~HasCol(df_apt, "date")
    THEN Raise("KeyError")
    ELSE LET d    == KpiTotals(df_apt)
             ts   == MonthlySeries(d)
             peak == PeakMonth(ts)
             rec  == recovery_vs_baseline_year(d, "passagers_total", BaselineYear)
             cg   == cagr(d, "passagers_total", None, None)
         IN  IF IsRaise(rec) THEN rec
             ELSE IF IsRaise(cg) THEN cg
             ELSE [ k |-> "kpis",
                    total_passengers |-> SumOver(DOMAIN d.rows, Col(d, "passagers_total")),
                    total_freight    |-> SumOver(DOMAIN d.rows, Col(d, "fret_total")),
                    top_airport_code |-> top[1],
                    top_airport_name |-> top[2],
                    top_airport_pax  |-> AirportSums(d)[top],
                    peak_month_date  |-> IF peak = None THEN None ELSE peak[1],
                    peak_month_pax   |-> IF peak = None THEN None ELSE peak[2],
                    yoy_pct          |-> recent_yoy(ts, "passagers_total"),
                    mom_pct          |-> mom(ts, "passagers_total"),
                    recovery_vs_2019_pct |-> rec,
                    cagr             |-> cg,
                    hhi_airports     |-> hhi_concentration(d, "code_aeroport", "passagers_total"),
                    top3_airport_share |-> topn_share(d, "code_aeroport", "passagers_total", TopAirports) ]

(***************************************************************************)
(* prep.agg_cie_market_share                                               *)
(***************************************************************************)
\* the orders sort_values(ascending=False) may give the groups: largest sum
\* first, groups of equal sums in either order
DescOrders(f) ==
    { q \in [1..Cardinality(DOMAIN f) -> DOMAIN f] :
        /\ \A i, j \in DOMAIN q : i # j => q[i] # q[j]
        /\ \A i, j \in DOMAIN q : i < j => f[q[i]] >= f[q[j]] }

\* groupby("cie") drops the rows without a key; order is the sorted order of
\* the groups
agg_cie_market_share(d, top_n, order) ==
    IF ~HasCol(d, "cie") \/ ~HasCol(d, "cie_pax") THEN EmptyFrame
    ELSE LET s     == GroupSums(d, "cie", Col(d, "cie_pax"))
             total == SumFn(s, {g \in DOMAIN s : ~IsNull(g)})
             all   == [i \in DOMAIN order |->
                         <<order[i], Num(s[order[i]]), NpDiv(s[order[i]], total)>>]
         IN  [ cols   |-> <<"cie", "cie_pax", "share">>,
               dtypes |-> <<"object", "int64", "float64">>,
               rows   |-> HeadN(all, top_n),
               attrs  |-> NoAttrs ]

\* the sums per airline that agg_cie_market_share sorts
CieSums(d) ==
    LET s == GroupSums(d, "cie", Col(d, "cie_pax"))
    IN  [g \in {x \in DOMAIN s : ~IsNull(x)} |-> s[g]]

(***************************************************************************)
(* prep.py: the time-series aggregations (resample by month)               *)
(***************************************************************************)
\* the last day of a month, the label resample("M") gives a month's bin
MonthEnd(y, m) == [k |-> "month_end", y |-> y, m |-> m]

\* a table of the given columns, dtypes and rows
Frame(cols, dtypes, rows) ==
    [cols |-> cols, dtypes |-> dtypes, rows |-> rows, attrs |-> NoAttrs]

\* df[names]
Project(d, names) ==
    Frame(names, [i \in DOMAIN names |-> Dtype(d, names[i])],
          [r \in DOMAIN d.rows |-> [i \in DOMAIN names |-> Col(d, names[i])[r]]])

\* pd.to_datetime(df["date"], errors="coerce")
ToDatetimeCol(cells) ==
    [r \in DOMAIN cells |->
        CASE cells[r].k \in {"ts", "nat"} -> cells[r]
          [] cells[r].k = "str" -> ToDatetime(cells[r].v)
          [] OTHER -> NaT]

RECURSIVE PresentCols(_, _, _)
\* the names among the candidates that are columns of d (and numeric, if asked)
PresentCols(d, names, numeric) ==
    IF names = <<>> THEN <<>>
    ELSE (IF HasCol(d, Head(names))
             /\ (numeric => Dtype(d, Head(names)) \in {"int64", "float64", "bool"})
          THEN <<Head(names)>> ELSE <<>>) \o PresentCols(d, Tail(names), numeric)

\* df.set_index("date").resample(freq).agg({c: "sum"}).reset_index(): one row
\* per month ("M"), quarter ("Q") or year ("Y") from the bin of the first to
\* the bin of the last date, labelled by the last day of the bin, the rows of
\* a null date left out; a table whose dates are all null makes resample raise
Resample(d, dates, keys, cells, freq) ==
    LET known  == {r \in DOMAIN d.rows : dates[r].k = "ts"}
        cols   == <<"date">> \o keys
        types  == <<"datetime64">> \o [i \in DOMAIN keys |-> "float64"]
        width  == CASE freq = "M" -> 1 [] freq = "Q" -> 3 [] freq = "Y" -> 12
        bin(c) == (DateKey(c) - 1) \div width
    IN  IF d.rows = <<>> THEN Frame(cols, types, <<>>)
        ELSE IF known = {} THEN Raise("Exception")
        ELSE LET lo == MinOf({bin(dates[r]) : r \in known})
                 hi == MaxOf({bin(dates[r]) : r \in known})
             IN  Frame(cols, types,
                       [b \in 1..(hi - lo + 1) |->
                           <<MonthEnd(((lo + b) * width - 1) \div 12,
                                      (((lo + b) * width - 1) % 12) + 1)>> \o
                           [i \in DOMAIN keys |->
                               Num(SumOver({r \in known : bin(dates[r]) = lo + b - 1},
                                           cells[i]))]])

AptSeriesCols == <<"passagers_total", "fret_total", "mouvements_passagers", "mouvements_cargo">>

agg_apt_timeseries(d, freq) ==
    IF IsEmpty(d) \/ ~HasCol(d, "date") THEN EmptyFrame
    ELSE LET dates == ToDatetimeCol(Col(d, "date"))
             keys  == PresentCols(d, AptSeriesCols, TRUE)
             grp   == Resample(d, dates, keys, [i \in DOMAIN keys |-> Col(d, keys[i])], freq)
         IN  IF keys = <<>> THEN EmptyFrame
             ELSE IF IsRaise(grp)
             THEN Project(SetCol(d, "date", dates, "datetime64"), <<"date">> \o keys)
             ELSE grp

CieSeriesCols == <<"cie_pax", "cie_pkt", "cie_tkt", "cie_frp", "cie_vol">>

\* the except branch groups by the period of the date: the rows of a null date
\* belong to no group
agg_cie_timeseries(d, freq) ==
    IF IsEmpty(d) \/ ~HasCol(d, "date") THEN EmptyFrame
    ELSE LET dates == ToDatetimeCol(Col(d, "date"))
             keys  == PresentCols(d, CieSeriesCols, FALSE)
             cells == [i \in DOMAIN keys |-> FillNa0(ToNum(d, keys[i]))]
             grp   == Resample(d, dates, keys, cells, freq)
         IN  IF keys = <<>> THEN EmptyFrame
             ELSE IF IsRaise(grp)
             THEN Frame(keys \o <<"date">>,
                        [i \in DOMAIN keys |-> "float64"] \o <<"datetime64">>, <<>>)
             ELSE grp

agg_lsn_timeseries(d, value, freq) ==
    IF ~HasCol(d, "date") \/ ~HasCol(d, value) THEN EmptyFrame
    ELSE IF Dtype(d, "date") # "datetime64" THEN Raise("TypeError")
    ELSE Resample(d, Col(d, "date"), <<value>>, <<Col(d, value)>>, freq)

(***************************************************************************)
(* prep.py and geo.py: the per-entity rankings                             *)
(***************************************************************************)
\* the order groupby gives its keys: ascending, a missing key last
KeyCellLess(a, b) ==
    IF IsNull(a) THEN FALSE ELSE IF IsNull(b) THEN TRUE ELSE CellLess(a, b)

RECURSIVE TupleLess(_, _)
TupleLess(x, y) ==
    IF x = <<>> \/ y = <<>> THEN FALSE
    ELSE IF Head(x) = Head(y) THEN TupleLess(Tail(x), Tail(y))
    ELSE KeyCellLess(Head(x), Head(y))

RECURSIVE SortedKeys(_)
\* a set of key tuples in groupby's order
SortedKeys(S) ==
    IF S = {} THEN <<>>
    ELSE LET m == CHOOSE x \in S : \A y \in S : ~TupleLess(y, x)
         IN  <<m>> \o SortedKeys(S \ {m})

\* the key tuple of each row
RowKeys(d, names) ==
    [r \in DOMAIN d.rows |-> [i \in DOMAIN names |-> Col(d, names[i])[r]]]

\* groupby(names, dropna=...)[value].sum(): key tuple -> sum
KeySums(d, names, value, dropna) ==
    LET keys == RowKeys(d, names)
        kept == {g \in SeqToSet(keys) : ~(dropna /\ \E i \in DOMAIN g : IsNull(g[i]))}
    IN  [g \in kept |-> SumOver({r \in DOMAIN keys : keys[r] = g}, Col(d, value))]

HasCols(d, names) == \A i \in DOMAIN names : HasCol(d, names[i])

AirportKey == <<"code_aeroport", "nom_aeroport">>

\* order: the airports as sort_values("passagers_total", ascending=False) left them
agg_apt_by_airport(d, top_n, order) ==
    IF ~HasCol(d, "code_aeroport") THEN EmptyFrame
    ELSE IF ~HasCols(d, <<"nom_aeroport", "passagers_total", "fret_total">>)
    THEN Raise("KeyError")
    ELSE LET pax  == KeySums(d, AirportKey, "passagers_total", FALSE)
             fret == KeySums(d, AirportKey, "fret_total", FALSE)
         IN  Frame(<<"code_aeroport", "nom_aeroport", "passagers_total", "fret_total">>,
                   <<"object", "object", "float64", "float64">>,
                   HeadN([i \in DOMAIN order |->
                            order[i] \o <<Num(pax[order[i]]), Num(fret[order[i]])>>], top_n))

BubbleKey == <<"code_aeroport", "nom_aeroport", "latitude", "longitude">>

RECURSIVE DropNullRows(_, _)
\* dropna(subset=...): the rows whose cells at the places idx are all there
DropNullRows(rows, idx) ==
    IF rows = <<>> THEN <<>>
    ELSE (IF \E i \in idx : IsNull(Head(rows)[i]) THEN <<>> ELSE <<Head(rows)>>)
            \o DropNullRows(Tail(rows), idx)

agg_apt_geo_bubbles(d) ==
    IF ~HasCols(d, BubbleKey \o <<"passagers_total">>) THEN EmptyFrame
    ELSE LET sums == KeySums(d, BubbleKey, "passagers_total", FALSE)
             keys == SortedKeys(DOMAIN sums)
         IN  Frame(BubbleKey \o <<"passagers_total">>,
                   [i \in DOMAIN BubbleKey |-> Dtype(d, BubbleKey[i])] \o <<"float64">>,
                   DropNullRows([i \in DOMAIN keys |-> keys[i] \o <<Num(sums[keys[i]])>>],
                                {3, 4}))

\* the column agg_lsn_top_routes groups by
TopRoutesKey(d, undirected) ==
    IF undirected /\ HasCol(d, "route_pair") THEN "route_pair"
    ELSE IF HasCol(d, "route_dir") THEN "route_dir" ELSE "lsn_seg"

agg_lsn_top_routes(d, value, top_n, undirected, order) ==
    IF ~HasCol(d, value) THEN EmptyFrame
    ELSE IF ~HasCol(d, TopRoutesKey(d, undirected)) THEN Raise("KeyError")
    ELSE LET sums == KeySums(d, <<TopRoutesKey(d, undirected)>>, value, TRUE)
         IN  Frame(<<"route", value>>, <<"object", "float64">>,
                   HeadN([i \in DOMAIN order |-> order[i] \o <<Num(sums[order[i]])>>], top_n))

\* agg(latitude=("latitude", "first")): the first value of the group that is there
FirstOf(d, names, g, c) ==
    LET rows == {r \in DOMAIN d.rows : RowKeys(d, names)[r] = g /\ ~IsNull(Col(d, c)[r])}
    IN  IF rows = {} THEN NaN ELSE Col(d, c)[MinOf(rows)]

detect_top_hubs(d, top_n, order) ==
    IF IsEmpty(d) THEN EmptyFrame
    ELSE IF ~HasCols(d, AirportKey \o <<"passagers_total", "fret_total", "latitude", "longitude">>)
    THEN Raise("KeyError")
    ELSE LET pax  == KeySums(d, AirportKey, "passagers_total", FALSE)
             fret == KeySums(d, AirportKey, "fret_total", FALSE)
         IN  Frame(<<"code_aeroport", "nom_aeroport", "passengers", "freight",
                     "latitude", "longitude", "rank">>,
                   <<"object", "object", "float64", "float64", "float64", "float64", "int64">>,
                   HeadN([i \in DOMAIN order |->
                            order[i] \o <<Num(pax[order[i]]), Num(fret[order[i]]),
                                          FirstOf(d, AirportKey, order[i], "latitude"),
                                          FirstOf(d, AirportKey, order[i], "longitude"),
                                          Num(i)>>], top_n))

\* the column top_busiest_routes groups by, None when the table has none
BusiestKey(d) ==
    IF HasCol(d, "route_pair") THEN "route_pair"
    ELSE IF HasCol(d, "route_dir") THEN "route_dir"
    ELSE IF HasCol(d, "lsn_seg") THEN "lsn_seg" ELSE "None"

top_busiest_routes(d, top_n, order) ==
    IF IsEmpty(d) \/ BusiestKey(d) = "None" \/ ~HasCol(d, "lsn_pax") THEN EmptyFrame
    ELSE LET sums == KeySums(d, <<BusiestKey(d)>>, "lsn_pax", FALSE)
         IN  Frame(<<"route", "passengers">>, <<"object", "float64">>,
                   HeadN([i \in DOMAIN order |-> order[i] \o <<Num(sums[order[i]])>>], top_n))

(***************************************************************************)
(* metrics.seasonality_index and metrics.contribution_to_change            *)
(***************************************************************************)
RECURSIVE ProdFn(_, _)
ProdFn(f, K) ==
    IF K = {} THEN 1
    ELSE LET x == CHOOSE y \in K : TRUE IN f[x] * ProdFn(f, K \ {x})

\* month -> value / (mean over the months of the monthly means), for the months
\* 1..12 that have a value; an empty table when that overall mean is 0 or NaN
seasonality_index(d, value_col) ==
    IF ~HasCol(d, "date") THEN EmptyFrame
    ELSE IF ~HasCol(d, value_col) THEN Raise("KeyError")
    ELSE IF \E r \in DOMAIN d.rows :
               Col(d, "date")[r].k = "str" /\ ToDatetime(Col(d, "date")[r].v) = NaT
    THEN Raise("ValueError")
    ELSE LET dates  == ToDatetimeCol(Col(d, "date"))
             vals   == ToNum(d, value_col)
             rowsOf(m) == {r \in DOMAIN d.rows : dates[r].k = "ts" /\ dates[r].m = m}
             months == {m \in 1..12 : rowsOf(m) # {}}
             cnt    == [m \in months |-> Cardinality({r \in rowsOf(m) : vals[r].k = "num"})]
             sum    == [m \in months |-> SumOver(rowsOf(m), vals)]
             valued == {m \in months : cnt[m] > 0}
             L      == ProdFn(cnt, valued)
             total  == SumFn([m \in valued |-> sum[m] * (L \div cnt[m])], valued)
             order  == SortRowsBy([m \in months |-> m], months)
         IN  IF valued = {} \/ total = 0 THEN EmptyFrame
             ELSE Frame(<<"month", "seasonality_index">>, <<"int64", "float64">>,
                        [i \in DOMAIN order |->
                            <<Num(order[i]),
                              IF cnt[order[i]] = 0 THEN NaN
                              ELSE Ratio(sum[order[i]] * L * Cardinality(valued),
                                         cnt[order[i]] * total)>>])

\* the rows of d whose date lies in the period (a pair of dates)
InPeriod(d, period) ==
    {r \in DOMAIN d.rows :
        /\ Col(d, "date")[r].k = "ts"
        /\ DateKey(period[1]) <= DateKey(Col(d, "date")[r])
        /\ DateKey(Col(d, "date")[r]) <= DateKey(period[2])}

\* groupby(entity_col, dropna=False)[value_col].sum() over the rows R
SumsOfRows(d, R, entity_col, value_col) ==
    [g \in {Col(d, entity_col)[r] : r \in R} |->
        SumOver({r \in R : Col(d, entity_col)[r] = g}, Col(d, value_col))]

\* the delta of every entity of period A or period B, an absent side being 0
Deltas(d, entity_col, value_col, period_a, period_b) ==
    LET a == SumsOfRows(d, InPeriod(d, period_a), entity_col, value_col)
        b == SumsOfRows(d, InPeriod(d, period_b), entity_col, value_col)
    IN  [g \in DOMAIN a \cup DOMAIN b |->
            [ value_A |-> IF g \in DOMAIN a THEN a[g] ELSE 0,
              value_B |-> IF g \in DOMAIN b THEN b[g] ELSE 0 ]]

\* entity -> delta, what contribution_to_change sorts by
DeltaOf(d, entity_col, value_col, period_a, period_b) ==
    LET v == Deltas(d, entity_col, value_col, period_a, period_b)
    IN  [g \in DOMAIN v |-> v[g].value_B - v[g].value_A]

\* contribution_to_change taking the shares after the truncation, of the total
\* of the rows that are kept
contribution_of_kept(d, entity_col, value_col, period_a, period_b, top_n, order) ==
    IF ~HasCol(d, "date") THEN EmptyFrame
    ELSE IF Dtype(d, "date") # "datetime64" /\ d.rows # <<>> THEN Raise("TypeError")
    ELSE IF ~HasCol(d, entity_col) \/ ~HasCol(d, value_col) THEN Raise("KeyError")
    ELSE LET v     == Deltas(d, entity_col, value_col, period_a, period_b)
             delta == [g \in DOMAIN v |-> v[g].value_B - v[g].value_A]
             total == SumFn(delta, SeqToSet(HeadN(order, top_n)))
         IN  Frame(<<entity_col, "value_A", "value_B", "delta", "share_of_delta">>,
                   <<Dtype(d, entity_col), "float64", "float64", "float64", "float64">>,
                   HeadN([i \in DOMAIN order |->
                            << order[i], Num(v[order[i]].value_A), Num(v[order[i]].value_B),
                               Num(delta[order[i]]),
                               IF total # 0 THEN NpDiv(delta[order[i]], total) ELSE NaN >>],
                         top_n))

\* order: the entities as sort_values("delta", ascending=False) left them
contribution_to_change(d, entity_col, value_col, period_a, period_b, top_n, order) ==
    IF ~HasCol(d, "date") THEN EmptyFrame
    ELSE IF Dtype(d, "date") # "datetime64" /\ d.rows # <<>> THEN Raise("TypeError")
    ELSE IF ~HasCol(d, entity_col) \/ ~HasCol(d, value_col) THEN Raise("KeyError")
    ELSE LET v     == Deltas(d, entity_col, value_col, period_a, period_b)
             delta == [g \in DOMAIN v |-> v[g].value_B - v[g].value_A]
             total == SumFn(delta, DOMAIN delta)
         IN  Frame(<<entity_col, "value_A", "value_B", "delta", "share_of_delta">>,
                   <<Dtype(d, entity_col), "float64", "float64", "float64", "float64">>,
                   HeadN([i \in DOMAIN order |->
                            << order[i], Num(v[order[i]].value_A), Num(v[order[i]].value_B),
                               Num(delta[order[i]]),
                               IF total # 0 THEN NpDiv(delta[order[i]], total) ELSE NaN >>],
                         top_n))

(***************************************************************************)
(* SpecNorm: the Schema Normalizer applied to a table, then to its own     *)
(* output.                                                                 *)
(***************************************************************************)
NameChars == {"A", "a", " ", "\t", "-", "_", BOM}

RawNames == Words(NameChars, MaxNameLen) \ {""}

InitNorm ==
    /\ raw \in {DataFrame(<<n>>, <<>>) : n \in RawNames}
    /\ df = raw
    /\ out = EmptyFrame
    /\ pc = "raw"

NormalizeOnce ==
    /\ pc = "raw"
    /\ df' = normalize_cols(df)
    /\ out' = df
    /\ pc' = "normalized"
    /\ UNCHANGED raw

NormalizeTwice ==
    /\ pc = "normalized"
    /\ df' = normalize_cols(df)
    /\ out' = df
    /\ pc' = "renormalized"
    /\ UNCHANGED raw

NextNorm == NormalizeOnce \/ NormalizeTwice

SpecNorm == InitNorm /\ [][NextNorm]_vars

\* C10: normalize_cols(normalize_cols(t)) has exactly the column names of
\* normalize_cols(t), whatever characters the names contain.
C10_NormalizeIdempotent == pc = "renormalized" => df.cols = out.cols

(***************************************************************************)
(* SpecSchema: the Schema Validator on tables whose columns drift from an  *)
(* expected schema: some expected columns absent, some known derived       *)
(* columns and some unrecognized columns present.                          *)
(***************************************************************************)
Schemas == {APT_EXPECTED, CIE_EXPECTED, LSN_EXPECTED}

\* column names no schema knows
UnknownCols == {"unnamed:_0", "commentaire"}

RECURSIVE SubsetsUpTo(_, _)
\* the subsets of S of at most n elements
SubsetsUpTo(S, n) ==
    IF n = 0 THEN {{}}
    ELSE SubsetsUpTo(S, n - 1) \cup {T \cup {x} : T \in SubsetsUpTo(S, n - 1), x \in S}

RECURSIVE SelectSeq2(_, _)
\* the elements of the sequence s that are in the set keep, in s's order
SelectSeq2(s, keep) ==
    IF s = <<>> THEN <<>>
    ELSE (IF Head(s) \in keep THEN <<Head(s)>> ELSE <<>>) \o SelectSeq2(Tail(s), keep)

DriftedCols(expected, dropped, derived, unknown) ==
    SelectSeq2(expected, SeqToSet(expected) \ dropped)
        \o SortedStrings(derived) \o SortedStrings(unknown)

InitSchema ==
    /\ raw \in UNION { { DataFrame(DriftedCols(e, m, d, x), <<>>) :
                             m \in SubsetsUpTo(SeqToSet(e), MaxDrift),
                             d \in SubsetsUpTo(KNOWN_DERIVED, 1),
                             x \in SubsetsUpTo(UnknownCols, MaxDrift) } :
                         e \in Schemas }
    /\ df = raw
    /\ out = EmptyFrame
    /\ pc = "raw"

ValidateSchema(expected) ==
    /\ pc = "raw"
    /\ out' = [fn |-> "validate_schema", expected |-> expected,
               val |-> validate_schema(df, expected)]
    /\ pc' = "validated"
    /\ UNCHANGED <<raw, df>>

NextSchema == \E e \in Schemas : ValidateSchema(e)

SpecSchema == InitSchema /\ [][NextSchema]_vars

\* the columns of the table absent from / foreign to the schema the report is for
LackedCols == SeqToSet(out.expected) \ SeqToSet(df.cols)

ForeignCols == (SeqToSet(df.cols) \ SeqToSet(out.expected)) \ KNOWN_DERIVED

\* C9: a table that lacks exactly one expected column and has exactly one
\* column neither expected nor known-derived validates with missing = [that
\* column] and extras = [that extra column].
C9_SchemaDrift ==
    (pc = "validated" /\ Cardinality(LackedCols) = 1 /\ Cardinality(ForeignCols) = 1)
        => /\ out.val.missing = <<CHOOSE c \in LackedCols : TRUE>>
           /\ out.val.extras = <<CHOOSE c \in ForeignCols : TRUE>>

\* C9 witness: such a table, carrying a known derived column too, was validated
C9_Witness ==
    /\ pc = "validated"
    /\ Cardinality(LackedCols) = 1
    /\ Cardinality(ForeignCols) = 1
    /\ SeqToSet(df.cols) \cap KNOWN_DERIVED # {}
    /\ out.val.derived # <<>>

(***************************************************************************)
(* SpecLsn: the route family. A table as read from a processed file is     *)
(* prepared by prep_lsn.                                                   *)
(***************************************************************************)
Tables(cols, rowset, n) ==
    UNION { { DataFrame(cols, rows) : rows \in [1..k -> rowset] } : k \in 0..n }

\* route-traffic files: ANMOIS, LSN_1, LSN_2, LSN_PAX
LsnCols == <<"ANMOIS", "LSN_1", "LSN_2", "LSN_PAX">>

LsnEndpoints == {Str("A"), Str("AB"), NaN}

LsnRows ==
    { <<p, o, e, x>> : p \in {Num(201912), Str("2020-13")},
                       o \in LsnEndpoints, e \in LsnEndpoints,
                       x \in {Num(3), NaN} }

InitLsn ==
    /\ raw \in Tables(LsnCols, LsnRows, MaxRows)
    /\ df = raw
    /\ out = EmptyFrame
    /\ pc = "lsn_raw"

PrepLsn ==
    /\ pc = "lsn_raw"
    /\ df' = prep_lsn(df)
    /\ pc' = "lsn_prepared"
    /\ UNCHANGED <<raw, out>>

NextLsn == PrepLsn

SpecLsn == InitLsn /\ [][NextLsn]_vars

\* C1: route-pair symmetry. Two route records with swapped endpoints (distinct
\* codes, equal codes or a missing endpoint) get the same route_pair key.
C1_RoutePairSymmetry ==
    pc = "lsn_prepared" =>
        \A i, j \in DOMAIN df.rows :
            (/\ Col(df, "lsn_1")[i] = Col(df, "lsn_2")[j]
             /\ Col(df, "lsn_2")[i] = Col(df, "lsn_1")[j])
                => Col(df, "route_pair")[i] = Col(df, "route_pair")[j]

(***************************************************************************)
(* SpecShare: the concentration metrics and the market-share aggregation   *)
(* on tables of (airline, passengers) records.                             *)
(***************************************************************************)
ShareCols == <<"cie", "cie_pax">>

ShareRows ==
    { <<Str(e), Num(v)>> : e \in {"A", "B", "C"}, v \in (0 - 1)..MaxVal }

\* the scenario of the specification: A = 50, B = 30, C = 10, D = 10
ScenarioShare ==
    DataFrame(ShareCols, << <<Str("A"), Num(50)>>, <<Str("B"), Num(30)>>,
                            <<Str("C"), Num(10)>>, <<Str("D"), Num(10)>> >>)

InitShare ==
    /\ raw \in Tables(ShareCols, ShareRows, MaxShareRows) \cup {ScenarioShare}
    /\ df = raw
    /\ out = EmptyFrame
    /\ pc = "prepared"

Hhi ==
    /\ pc = "prepared"
    /\ out' = [fn |-> "hhi_concentration", val |-> hhi_concentration(df, "cie", "cie_pax")]
    /\ pc' = "done"
    /\ UNCHANGED <<raw, df>>

TopNShare(n) ==
    /\ pc = "prepared"
    /\ out' = [fn |-> "topn_share", n |-> n,
               val  |-> topn_share(df, "cie", "cie_pax", n),
               next |-> topn_share(df, "cie", "cie_pax", n + 1)]
    /\ pc' = "done"
    /\ UNCHANGED <<raw, df>>

MarketShare(top_n) ==
    /\ pc = "prepared"
    /\ \E order \in DescOrders(CieSums(df)) :
          out' = [fn |-> "agg_cie_market_share", top_n |-> top_n,
                  val |-> agg_cie_market_share(df, top_n, order)]
    /\ pc' = "done"
    /\ UNCHANGED <<raw, df>>

NextShare ==
    \/ Hhi
    \/ \E n \in (0 - MaxTopN)..MaxTopN : TopNShare(n)
    \/ \E n \in 1..MaxTopN : MarketShare(n)

SpecShare == InitShare /\ [][NextShare]_vars

\* the totals per entity of the table, and their grand total
EntitySums == GroupSums(df, "cie", Col(df, "cie_pax"))

GrandTotal == SumFn(EntitySums, DOMAIN EntitySums)

NoNegativeEntity == \A g \in DOMAIN EntitySums : EntitySums[g] >= 0

HhiBounds ==
    /\ out.val.k = "ratio"
    /\ ~RatLeq(out.val, Ratio(0, 1))
    /\ RatLeq(out.val, Ratio(1, 1))
    /\ RatEq(out.val, 1, 1) <=> \E g \in DOMAIN EntitySums : EntitySums[g] = GrandTotal

HhiUndefined == (IsEmpty(df) \/ GrandTotal <= 0) => out.val = NaN

TopNMonotone ==
    /\ out.next.k = "ratio"
    /\ RatLeq(out.val, out.next)
    /\ RatLeq(out.next, Ratio(1, 1))

\* C5 as stated: wherever topn_share is defined, for all integers n,
\* topn_share(n) <= topn_share(n + 1) <= 1.
C5_TopNMonotone_AsStated ==
    (pc = "done" /\ out.fn = "topn_share" /\ out.val.k = "ratio") => TopNMonotone

\* C5 amended: the chain holds for every n >= 0 on tables in which no entity's
\* total is negative.
C5_TopNMonotone ==
    (pc = "done" /\ out.fn = "topn_share" /\ out.val.k = "ratio"
        /\ out.n >= 0 /\ NoNegativeEntity) => TopNMonotone

\* C5 witness: a top-1 share strictly below the top-2 share
C5_Witness ==
    /\ pc = "done" /\ out.fn = "topn_share" /\ out.n = 1
    /\ NoNegativeEntity
    /\ out.val.k = "ratio" /\ out.next.k = "ratio"
    /\ ~RatLeq(out.next, out.val)

RECURSIVE SumShares(_)
\* the sum of the numerators of the shares of the rows (one denominator)
SumShares(rows) ==
    IF rows = <<>> THEN 0 ELSE Head(rows)[3].n + SumShares(Tail(rows))

HasShareRow(rows, name, a, b) ==
    \E i \in DOMAIN rows : rows[i][1] = Str(name) /\ RatEq(rows[i][3], a, b)

\* C6: with more than top_n entities, the entities beyond the top_n are
\* collapsed into an Others row and the returned shares sum to 1; for A = 50,
\* B = 30, C = 10, D = 10 and top_n = 2: A = 0.5, B = 0.3, Others = 0.2.
C6_MarketShareOthers ==
    (pc = "done" /\ out.fn = "agg_cie_market_share"
        /\ NoNegativeEntity /\ GrandTotal > 0
        /\ Cardinality(DOMAIN EntitySums) > out.top_n)
    => /\ \E i \in DOMAIN out.val.rows : out.val.rows[i][1] = Str("Others")
       /\ SumShares(out.val.rows) = GrandTotal
       /\ (df = ScenarioShare /\ out.top_n = 2)
             => /\ Len(out.val.rows) = 3
                /\ HasShareRow(out.val.rows, "A", 5, 10)
                /\ HasShareRow(out.val.rows, "B", 3, 10)
                /\ HasShareRow(out.val.rows, "Others", 2, 10)

(***************************************************************************)
(* SpecGrowth: the growth metrics on tables of (year, passengers) records, *)
(* the year being null where the date of the row could not be derived.     *)
(***************************************************************************)
GrowthCols == <<"year", "passagers_total">>

\* the years around the baseline year
Years == (BaselineYear - 1)..(BaselineYear + MaxYears - 2)

GrowthRows ==
    { <<y, Num(v)>> : y \in {Num(x) : x \in Years} \cup {NaN}, v \in {0, MaxVal} }

InitGrowth ==
    /\ raw \in Tables(GrowthCols, GrowthRows, MaxRows)
    /\ df = raw
    /\ out = EmptyFrame
    /\ pc = "prepared"

Cagr(start_year, end_year) ==
    /\ pc = "prepared"
    /\ out' = [fn |-> "cagr", start_year |-> start_year, end_year |-> end_year,
               val |-> cagr(df, "passagers_total", start_year, end_year)]
    /\ pc' = "done"
    /\ UNCHANGED <<raw, df>>

Recovery(baseline_year) ==
    /\ pc = "prepared"
    /\ out' = [fn |-> "recovery_vs_baseline_year", baseline_year |-> baseline_year,
               val |-> recovery_vs_baseline_year(df, "passagers_total", baseline_year)]
    /\ pc' = "done"
    /\ UNCHANGED <<raw, df>>

YearArgs == {None} \cup {Num(y) : y \in Years}

NextGrowth ==
    \/ \E s \in YearArgs, e \in YearArgs : Cagr(s, e)
    \/ \E b \in Years : Recovery(b)

SpecGrowth == InitGrowth /\ [][NextGrowth]_vars

\* the yearly totals of the table; the years that are known
YearTotals == yearly_sum(df, "passagers_total").sums

YearsKnown == KnownYears(YearTotals)

\* the first and last year of a cagr call: the arguments, or the first and
\* last year of the data
StartOf(o) == IF o.start_year = None THEN MinOf(YearsKnown) ELSE o.start_year.v

EndOf(o) == IF o.end_year = None THEN MaxOf(YearsKnown) ELSE o.end_year.v

\* C7: cagr returns NaN whenever the end year equals the start year, whenever
\* fewer than two distinct years with data lie between them, and whenever the
\* start or the end year's total is <= 0; never a number for a one-year range.
C7_CagrDegenerate ==
    (pc = "done" /\ out.fn = "cagr"
        /\ ((out.start_year = None \/ out.end_year = None) => YearsKnown # {}))
    => (( \/ StartOf(out) = EndOf(out)
          \/ Cardinality({y \in YearsKnown : StartOf(out) <= y /\ y <= EndOf(out)}) < 2
          \/ TotalOfYear(YearTotals, StartOf(out)) <= 0
          \/ TotalOfYear(YearTotals, EndOf(out)) <= 0 )
        => out.val = NaN)

\* C8: recovery_vs_baseline_year is 100 * total(latest year) / total(baseline
\* year); when the baseline year is absent or its total is zero the result is
\* NaN, not zero and not an exception.
C8_RecoverySentinel ==
    (pc = "done" /\ out.fn = "recovery_vs_baseline_year") =>
        LET base == TotalOfYear(YearTotals, out.baseline_year)
        IN  /\ (base # 0) =>
                 out.val = Ratio(100 * TotalOfYear(YearTotals, MaxOf(YearsKnown)), base)
            /\ (base = 0) => out.val = NaN

(***************************************************************************)
(* SpecApt: an airport-traffic file is loaded, prepared and summarised.    *)
(***************************************************************************)
AptCols ==
    << "ANMOIS", "code_aeroport", "nom_aeroport", "passagers_depart",
       "passagers_arrivee", "passagers_transit", "fret_depart", "fret_arrivee" >>

\* the second period has no thirteenth month to parse
AptRows ==
    { <<p, Str(a), Str("N"), dep, arr, Num(1), Num(3), Num(4)>> :
        p \in {Num(201901), Num(202013)}, a \in {"A", "B"},
        dep \in {Num(1), NaN, Str("-")}, arr \in {Num(2), NaN} }

InitApt ==
    /\ raw \in UNION { { ReadCsv(AptCols, rows) : rows \in [1..k -> AptRows] } :
                       k \in 0..MaxRows }
    /\ df = raw
    /\ out = EmptyFrame
    /\ pc = "apt_raw"

LoadApt ==
    /\ pc = "apt_raw"
    /\ LET d == load_apt_processed(raw)
       IN  IF IsRaise(d)
           THEN /\ out' = d
                /\ pc' = "apt_failed"
                /\ UNCHANGED df
           ELSE /\ df' = d
                /\ pc' = "apt_loaded"
                /\ UNCHANGED out
    /\ UNCHANGED raw

PrepApt ==
    /\ pc \in {"apt_raw", "apt_loaded"}
    /\ df' = prep_apt(df)
    /\ pc' = "apt_prepared"
    /\ UNCHANGED <<raw, out>>

\* the airports sort_values may put first in kpis_apt
TopChoices(d) ==
    IF IsEmpty(d) \/ ~HasCol(d, "code_aeroport") \/ ~HasCol(d, "nom_aeroport")
    THEN {<<None, None>>}
    ELSE Largest(AirportSums(KpiTotals(d)))

KpisApt ==
    /\ pc = "apt_prepared"
    /\ \E top \in TopChoices(df) : out' = kpis_apt(df, top)
    /\ pc' = "apt_kpis"
    /\ UNCHANGED <<raw, df>>

\* prep_apt(prep_apt(t)): the preparer on its own output; out keeps the table
\* of the first pass
ReprepApt ==
    /\ pc = "apt_prepared"
    /\ out' = df
    /\ df' = prep_apt(df)
    /\ pc' = "apt_reprepared"
    /\ UNCHANGED raw

NextApt == LoadApt \/ PrepApt \/ KpisApt \/ ReprepApt

SpecApt == InitApt /\ [][NextApt]_vars

\* in every row of the table whose two operands are numbers, the total is
\* their sum
RowsConserve(d, total, a, b) ==
    /\ HasCol(d, total)
    /\ \A r \in DOMAIN d.rows :
          (Col(d, a)[r].k = "num" /\ Col(d, b)[r].k = "num")
              => Col(d, total)[r] = Num(Col(d, a)[r].v + Col(d, b)[r].v)

\* C2: in every row of the table returned by prep_apt and by
\* load_apt_processed, passagers_total = passagers_depart + passagers_arrivee
\* and fret_total = fret_depart + fret_arrivee when both operands are numeric;
\* the transit passengers are not added.
C2_Conservation ==
    pc \in {"apt_loaded", "apt_prepared"} =>
        /\ RowsConserve(df, "passagers_total", "passagers_depart", "passagers_arrivee")
        /\ RowsConserve(df, "fret_total", "fret_depart", "fret_arrivee")

\* C2 witness: a prepared row with numeric operands and transit passengers
C2_Witness ==
    /\ pc = "apt_prepared"
    /\ \E r \in DOMAIN df.rows :
          /\ Col(df, "passagers_depart")[r] = Num(1)
          /\ Col(df, "passagers_arrivee")[r] = Num(2)
          /\ Col(df, "passagers_transit")[r] = Num(1)
          /\ Col(df, "passagers_total")[r] = Num(3)
          /\ Col(df, "fret_total")[r] = Num(7)

\* C3: for every non-empty prepared airport table, kpis_apt's total_passengers
\* equals the sum of passagers_total over its rows and total_freight equals the
\* sum of fret_total.
C3_KpiTotals ==
    (pc = "apt_kpis" /\ out.k = "kpis") =>
        /\ out.total_passengers = SumOver(DOMAIN df.rows, Col(df, "passagers_total"))
        /\ out.total_freight = SumOver(DOMAIN df.rows, Col(df, "fret_total"))

\* every cell of a numeric column of the table before is the same in the table
\* after
NumericUnchanged(before, after) ==
    \A i \in DOMAIN before.cols :
        before.dtypes[i] \in {"int64", "float64"} =>
            /\ HasCol(after, before.cols[i])
            /\ \A r \in DOMAIN before.rows :
                  /\ r \in DOMAIN after.rows
                  /\ Col(after, before.cols[i])[r] = before.rows[r][i]

\* C11: preparer idempotence. Running prep_apt on its own output leaves every
\* numeric field of every row unchanged, the derived year, month and totals
\* included.
C11_PreparerIdempotent ==
    pc = "apt_reprepared" => NumericUnchanged(out, df)

(***************************************************************************)
(* SpecCalls: every aggregation and every metric called on a table of one  *)
(* of the three families: a prepared table cut down by the filters to a    *)
(* few rows or to none, with or without its date and year columns, or the  *)
(* table without columns a missing file gives.                             *)
(***************************************************************************)
Families == {"apt", "cie", "lsn"}

\* the records of a call table: date (with its year), entity, value
CallRecs ==
    { <<dt, Str("A"), Num(v)>> : dt \in {Ts(BaselineYear, 1), NaT}, v \in {0, 1} }

YearDtype(recs) ==
    IF \E r \in DOMAIN recs : recs[r][1].k = "nat" THEN "float64" ELSE "int64"

\* the table of a family holding the records; dated is "both" (date and year),
\* "date" (date only) or "none"
CallTable(family, dated, recs) ==
    LET tcols  == CASE dated = "both" -> <<"date", "year">>
                    [] dated = "date" -> <<"date">>
                    [] dated = "none" -> <<>>
        ttypes == CASE dated = "both" -> <<"datetime64", YearDtype(recs)>>
                    [] dated = "date" -> <<"datetime64">>
                    [] dated = "none" -> <<>>
        tcells(r) == CASE dated = "both" -> <<recs[r][1], DtYear(<<recs[r][1]>>)[1]>>
                       [] dated = "date" -> <<recs[r][1]>>
                       [] dated = "none" -> <<>>
    IN  CASE family = "apt" ->
               Frame(tcols \o <<"code_aeroport", "nom_aeroport", "latitude", "longitude",
                                "passagers_total", "fret_total">>,
                     ttypes \o <<"object", "object", "int64", "int64", "int64", "int64">>,
                     [r \in DOMAIN recs |->
                         tcells(r) \o <<recs[r][2], Str("N"), Num(1), Num(2),
                                        recs[r][3], recs[r][3]>>])
          [] family = "cie" ->
               Frame(tcols \o <<"cie", "cie_pax">>, ttypes \o <<"object", "int64">>,
                     [r \in DOMAIN recs |-> tcells(r) \o <<recs[r][2], recs[r][3]>>])
          [] family = "lsn" ->
               Frame(tcols \o <<"route_pair", "route_dir", "lsn_pax">>,
                     ttypes \o <<"object", "object", "int64">>,
                     [r \in DOMAIN recs |->
                         tcells(r) \o <<recs[r][2], recs[r][2], recs[r][3]>>])

EntityCol(family) ==
    CASE family = "apt" -> "code_aeroport" [] family = "cie" -> "cie"
      [] family = "lsn" -> "route_pair"

ValueCol(family) ==
    CASE family = "apt" -> "passagers_total" [] family = "cie" -> "cie_pax"
      [] family = "lsn" -> "lsn_pax"

InitCalls ==
    /\ raw \in [family : Families]
    /\ df \in {EmptyFrame} \cup
              UNION { { CallTable(raw.family, dated, recs) : recs \in [1..k -> CallRecs] } :
                      k \in 0..MaxRows, dated \in {"both", "date", "none"} }
    /\ out = EmptyFrame
    /\ pc = "table"

\* the call of fn returned (or raised) val
Called(fn, val) ==
    /\ pc = "table"
    /\ out' = [fn |-> fn, val |-> val]
    /\ pc' = "called"
    /\ UNCHANGED <<raw, df>>

\* the orders a descending sort of the group sums may leave the groups in
RankOrders(d, names, value, dropna) ==
    IF HasCols(d, names \o <<value>>) THEN DescOrders(KeySums(d, names, value, dropna))
    ELSE {<<>>}

CallPeriods == { <<Ts(BaselineYear, 1), Ts(BaselineYear, 1)>>,
                 <<Ts(BaselineYear, 2), Ts(BaselineYear, 3)>> }

DeltaOrders(d, e, v, pa, pb) ==
    IF HasCols(d, <<"date", e, v>>)
    THEN {[i \in DOMAIN q |-> q[i]] : q \in DescOrders(DeltaOf(d, e, v, pa, pb))}
    ELSE {<<>>}

CallAggregation ==
    \/ Called("agg_apt_timeseries", agg_apt_timeseries(df, "M"))
    \/ \E n \in 1..MaxTopN, o \in RankOrders(df, AirportKey, "passagers_total", FALSE) :
          Called("agg_apt_by_airport", agg_apt_by_airport(df, n, o))
    \/ Called("agg_apt_geo_bubbles", agg_apt_geo_bubbles(df))
    \/ Called("agg_cie_timeseries", agg_cie_timeseries(df, "M"))
    \/ \E n \in 1..MaxTopN, o \in RankOrders(df, <<"cie">>, "cie_pax", TRUE) :
          Called("agg_cie_market_share",
                 agg_cie_market_share(df, n, [i \in DOMAIN o |-> o[i][1]]))
    \/ \E n \in 1..MaxTopN, u \in BOOLEAN :
          \E o \in RankOrders(df, <<TopRoutesKey(df, u)>>, "lsn_pax", TRUE) :
          Called("agg_lsn_top_routes", agg_lsn_top_routes(df, "lsn_pax", n, u, o))
    \/ Called("agg_lsn_timeseries", agg_lsn_timeseries(df, "lsn_pax", "M"))

CallMetric ==
    LET e == EntityCol(raw.family)
        v == ValueCol(raw.family)
    IN  \/ \E s \in YearArgs, t \in YearArgs : Called("cagr", cagr(df, v, s, t))
        \/ Called("mom", mom(df, v))
        \/ Called("recent_yoy", recent_yoy(df, v))
        \/ \E b \in Years : Called("recovery_vs_baseline_year",
                                   recovery_vs_baseline_year(df, v, b))
        \/ Called("seasonality_index", seasonality_index(df, v))
        \/ Called("hhi_concentration", hhi_concentration(df, e, v))
        \/ \E n \in 0..MaxTopN : Called("topn_share", topn_share(df, e, v, n))
        \/ \E pa \in CallPeriods, pb \in CallPeriods, n \in 1..MaxTopN :
              \E o \in DeltaOrders(df, e, v, pa, pb) :
              Called("contribution_to_change",
                     contribution_to_change(df, e, v, pa, pb, n, o))

NextCalls == CallAggregation \/ CallMetric

SpecCalls == InitCalls /\ [][NextCalls]_vars

\* an empty table or an undefined scalar
IsUndefined(x) == x = NaN \/ ("rows" \in DOMAIN x /\ x.rows = <<>>)

\* C12: empty input. Every aggregation and every metric function, given a
\* zero-row table (with or without columns), returns an empty table or an
\* undefined scalar and never raises.
C12_EmptyInput ==
    (pc = "called" /\ df.rows = <<>>) => (~IsRaise(out.val) /\ IsUndefined(out.val))

\* the metric functions of metrics.py
MetricFunctions ==
    { "cagr", "mom", "recent_yoy", "recovery_vs_baseline_year", "seasonality_index",
      "hhi_concentration", "topn_share", "contribution_to_change" }

\* C13: degenerate metric inputs never raise. For every non-empty table, one
\* without year and date columns, one whose dates are all null and one whose
\* totals are zero included, each metric function returns the undefined
\* sentinel instead of raising.
C13_DegenerateNeverRaise ==
    (pc = "called" /\ df.rows # <<>> /\ out.fn \in MetricFunctions) => ~IsRaise(out.val)

(***************************************************************************)
(* SpecPrep: the three preparers and add_date_fields on tables as read     *)
(* from the processed files of the three families. The year and the month  *)
(* come as two columns, as one packed column, or, in a file that carries   *)
(* every expected column, as both.                                         *)
(***************************************************************************)
Expected(family) ==
    CASE family = "apt" -> APT_EXPECTED
      [] family = "cie" -> CIE_EXPECTED
      [] family = "lsn" -> LSN_EXPECTED

Numeric(family) ==
    CASE family = "apt" -> AptNumeric
      [] family = "cie" -> CieNumeric
      [] family = "lsn" -> LsnNumeric

prep(family, d) ==
    CASE family = "apt" -> prep_apt(d)
      [] family = "cie" -> prep_cie(d)
      [] family = "lsn" -> prep_lsn(d)

Layouts == {"year_month", "packed", "full"}

\* the header of a file of the family
FileCols(family, layout) ==
    LET packed  == IF family = "apt" THEN "ANNEE_MOIS" ELSE "ANMOIS"
        label   == CASE family = "apt" -> "ZONE"
                     [] family = "cie" -> "CIE_NOM"
                     [] family = "lsn" -> "LSN_1"
        measure == CASE family = "apt" -> "PASSAGERS_DEPART"
                     [] family = "cie" -> "CIE_PAX"
                     [] family = "lsn" -> "LSN_PAX"
    IN  CASE layout = "year_month" -> <<"ANNEE", "MOIS", label, measure>>
          [] layout = "packed"     -> <<packed, label, measure>>
          [] layout = "full"       -> Expected(family)

\* year, month and packed year-month of one record: a month of the baseline
\* year, a month that does not exist, an empty year, a dash for the month
\* beside a packed value that carries a day
DateParts ==
    { <<Num(BaselineYear), Num(2), Num(BaselineYear * 100 + 2)>>,
      <<Num(BaselineYear), Num(13), Num(BaselineYear * 100 + 13)>>,
      <<NaN, Num(2), Str("-")>>,
      <<Num(BaselineYear), Str("-"), Num(BaselineYear * 10000 + 215)>> }

\* a record with a label and a count, or with a dash for both
FileRecs == { <<p, tx[1], tx[2]>> : p \in DateParts,
                                    tx \in {<<Str("A"), Num(3)>>, <<Str("-"), Str("-")>>} }

\* the cell of one record under one column of the header
FileCell(family, col, rec) ==
    LET c == StrLower(col)
    IN  CASE c = "annee" -> rec[1][1]
          [] c = "mois"  -> rec[1][2]
          [] c \in {"anmois", "annee_mois"} -> rec[1][3]
          [] c \in SeqToSet(Numeric(family)) -> rec[3]
          [] OTHER -> rec[2]

FileTable(family, layout, recs) ==
    LET cols == FileCols(family, layout)
    IN  ReadCsv(cols, [r \in DOMAIN recs |->
                          [i \in DOMAIN cols |-> FileCell(family, cols[i], recs[r])]])

InitPrep ==
    /\ raw \in [family : {"apt", "cie", "lsn"}, layout : Layouts]
    /\ \E k \in 0..MaxRows : \E recs \in [1..k -> FileRecs] :
          df = FileTable(raw.family, raw.layout, recs)
    /\ out = EmptyFrame
    /\ pc = "file"

\* add_date_fields on the table with normalized column names
AddDateFields ==
    /\ pc = "file"
    /\ out' = df
    /\ df' = add_date_fields(normalize_cols(df))
    /\ pc' = "dated"
    /\ UNCHANGED raw

Prepare ==
    /\ pc = "file"
    /\ out' = df
    /\ df' = prep(raw.family, df)
    /\ pc' = "prepared"
    /\ UNCHANGED raw

NextPrep == AddDateFields \/ Prepare

SpecPrep == InitPrep /\ [][NextPrep]_vars

\* the number a cell of a source column stands for
Same(cell, n) == ToNumericCell(cell) = Num(n)

NumericCols == <<"pax", "cie">>

NumericCells == {Num(1), Str("12"), Str("x"), NaN}

\* the lists to_numeric is called with: "vol" is in no table
ColumnLists ==
    { <<>>, <<"pax">>, <<"cie">>, <<"vol">>, <<"pax", "cie">>, <<"vol", "pax">>,
      <<"pax", "vol", "cie">> }

InitNumeric ==
    /\ raw = <<>>
    /\ \E k \in 0..MaxRows : \E rows \in [1..k -> [1..Len(NumericCols) -> NumericCells]] :
          df = ReadCsv(NumericCols, rows)
    /\ out = EmptyFrame
    /\ pc = "read"

ToNumeric ==
    /\ pc = "read"
    /\ \E cols \in ColumnLists :
          /\ raw' = cols
          /\ df' = to_numeric(df, cols)
    /\ out' = df
    /\ pc' = "coerced"

NextNumeric == ToNumeric

SpecNumeric == InitNumeric /\ [][NextNumeric]_vars

\* a text that spells a number
SpellsNumber(c) == c.k = "str" /\ c.v # "" /\ AllDigits(c.v)

\* C15: numeric coercion. to_numeric turns the values of the listed columns
\* that are present and cannot be converted into missing values without
\* raising, leaves the columns outside the list unchanged and ignores the
\* listed columns that are absent.
C15_NumericCoercion ==
    pc = "coerced" =>
        /\ ~IsRaise(df)
        /\ df.cols = out.cols
        /\ Len(df.rows) = Len(out.rows)
        /\ \A i \in DOMAIN out.cols : \A r \in DOMAIN out.rows :
              LET before == out.rows[r][i]
                  after  == df.rows[r][i]
              IN  IF out.cols[i] \in SeqToSet(raw)
                  THEN CASE before.k = "str" /\ ~SpellsNumber(before) -> after = NaN
                         [] SpellsNumber(before) -> after = Num(StrToNat(before.v))
                         [] OTHER -> after = before
                  ELSE after = before /\ df.dtypes[i] = out.dtypes[i]

\* a call that names a present and an absent column: a text of the present
\* one became missing, a text of the unlisted one is still there
C15_Witness ==
    /\ pc = "coerced"
    /\ raw = <<"vol", "pax">>
    /\ \E r \in DOMAIN df.rows :
          /\ Col(out, "pax")[r] = Str("x") /\ Col(df, "pax")[r] = NaN
          /\ Col(df, "cie")[r] = Str("x")

(***************************************************************************)
(* SpecRank: the four ranking functions on prepared airport and route      *)
(* tables whose entities may tie.                                          *)
(***************************************************************************)
RankAptCols ==
    <<"code_aeroport", "nom_aeroport", "passagers_total", "fret_total", "latitude",
      "longitude">>

RankLsnCols == <<"route_pair", "lsn_pax">>

RankEntities == {"A", "B"}

RankAptRows ==
    { <<Str(e), Str("N"), Num(v), Num(0), Num(0), Num(0)>> :
        e \in RankEntities, v \in 1..MaxVal }

RankLsnRows == { <<Str(e), Num(v)>> : e \in RankEntities, v \in 1..MaxVal }

RankFunctions ==
    {"agg_apt_by_airport", "detect_top_hubs", "agg_lsn_top_routes", "top_busiest_routes"}

\* the columns that name the entity a ranking function groups by
RankNames(fn) ==
    IF fn \in {"agg_apt_by_airport", "detect_top_hubs"} THEN AirportKey ELSE <<"route_pair">>

RankValue(fn) ==
    IF fn \in {"agg_apt_by_airport", "detect_top_hubs"} THEN "passagers_total" ELSE "lsn_pax"

InitRank ==
    /\ raw \in {"apt", "lsn"}
    /\ df \in IF raw = "apt" THEN Tables(RankAptCols, RankAptRows, MaxRows)
              ELSE Tables(RankLsnCols, RankLsnRows, MaxRows)
    /\ out = EmptyFrame
    /\ pc = "table"

Ranked(fn, top_n, val) ==
    /\ out' = [fn |-> fn, top_n |-> top_n, val |-> val]
    /\ pc' = "ranked"
    /\ UNCHANGED <<raw, df>>

RankApt ==
    /\ pc = "table"
    /\ raw = "apt"
    /\ \E n \in 0..MaxTopN :
       \E o \in RankOrders(df, AirportKey, "passagers_total", FALSE) :
          \/ Ranked("agg_apt_by_airport", n, agg_apt_by_airport(df, n, o))
          \/ Ranked("detect_top_hubs", n, detect_top_hubs(df, n, o))

RankLsn ==
    /\ pc = "table"
    /\ raw = "lsn"
    /\ \E n \in 0..MaxTopN :
          \/ \E o \in RankOrders(df, <<"route_pair">>, "lsn_pax", TRUE) :
                Ranked("agg_lsn_top_routes", n,
                       agg_lsn_top_routes(df, "lsn_pax", n, TRUE, o))
          \/ \E o \in RankOrders(df, <<"route_pair">>, "lsn_pax", FALSE) :
                Ranked("top_busiest_routes", n, top_busiest_routes(df, n, o))

NextRank == RankApt \/ RankLsn

SpecRank == InitRank /\ [][NextRank]_vars

\* the first row of the table that names the entity g
FirstRow(d, names, g) == MinOf({r \in DOMAIN d.rows : RowKeys(d, names)[r] = g})

\* the entities by descending sum, equal sums in the order of their first
\* occurrence in the table
StableRanking(d, names, value) ==
    LET sums == KeySums(d, names, value, FALSE)
    IN  CHOOSE q \in [1..Cardinality(DOMAIN sums) -> DOMAIN sums] :
          \A i, j \in DOMAIN q : i < j =>
              \/ sums[q[i]] > sums[q[j]]
              \/ /\ sums[q[i]] = sums[q[j]]
                 /\ FirstRow(d, names, q[i]) < FirstRow(d, names, q[j])

\* C16: ranking. Each ranking function returns one row per entity with its
\* summed value, in descending order of the value, truncated to top_n, the
\* entities with equal sums in the order of their first occurrence in the
\* input.
C16_Ranking ==
    (pc = "ranked" /\ df.rows # <<>>) =>
        LET names == RankNames(out.fn)
            sums  == KeySums(df, names, RankValue(out.fn), FALSE)
            q     == HeadN(StableRanking(df, names, RankValue(out.fn)), out.top_n)
        IN  /\ ~IsRaise(out.val)
            /\ Len(out.val.rows) = Len(q)
            /\ \A i \in DOMAIN q :
                  /\ SubSeq(out.val.rows[i], 1, Len(names)) = q[i]
                  /\ out.val.rows[i][Len(names) + 1] = Num(sums[q[i]])

(***************************************************************************)
(* SpecContrib: metrics.contribution_to_change on a prepared table whose   *)
(* rows fall in period A, in period B or in neither.                       *)
(***************************************************************************)
ContribCols == <<"date", "cie", "cie_pax">>

ContribRows ==
    { <<dt, Str(e), Num(v)>> :
        dt \in {Ts(BaselineYear, 1), Ts(BaselineYear, 2), NaT},
        e \in {"A", "B"}, v \in 0..MaxVal }

InitContrib ==
    /\ raw = "cie"
    /\ df \in Tables(ContribCols, ContribRows, MaxRows)
    /\ out = EmptyFrame
    /\ pc = "table"

Contribution ==
    /\ pc = "table"
    /\ \E pa \in CallPeriods, pb \in CallPeriods, n \in 0..MaxTopN :
       \E o \in DeltaOrders(df, "cie", "cie_pax", pa, pb) :
          out' = [ period_a |-> pa, period_b |-> pb, top_n |-> n,
                   val |-> contribution_to_change(df, "cie", "cie_pax", pa, pb, n, o) ]
    /\ pc' = "contributed"
    /\ UNCHANGED <<raw, df>>

NextContrib == Contribution

SpecContrib == InitContrib /\ [][NextContrib]_vars

\* the sum of the entity g over the rows of a period
PeriodSum(d, period, g) ==
    SumOver({r \in InPeriod(d, period) : Col(d, "cie")[r] = g}, Col(d, "cie_pax"))

\* the entities that have a row in period A or in period B
PeriodEntities(d, period_a, period_b) ==
    {Col(d, "cie")[r] : r \in InPeriod(d, period_a) \cup InPeriod(d, period_b)}

\* C17: contribution_to_change returns, for every entity that has a row in
\* period A or in period B, delta = its sum in B minus its sum in A, an
\* absent side counting as 0, and share_of_delta = delta / the sum of the
\* deltas of all entities, undefined when that sum is 0; the rows are sorted
\* by delta descending and truncated to top_n.
C17_Contribution ==
    pc = "contributed" =>
        LET rows     == out.val.rows
            entities == PeriodEntities(df, out.period_a, out.period_b)
            delta(g) == PeriodSum(df, out.period_b, g) - PeriodSum(df, out.period_a, g)
            total    == SumFn([g \in entities |-> delta(g)], entities)
            kept     == {rows[i][1] : i \in DOMAIN rows}
        IN  /\ ~IsRaise(out.val)
            /\ Len(rows) = IF out.top_n < Cardinality(entities) THEN out.top_n
                           ELSE Cardinality(entities)
            /\ kept \subseteq entities
            /\ Cardinality(kept) = Len(rows)
            /\ \A i \in DOMAIN rows :
                  /\ rows[i][4] = Num(delta(rows[i][1]))
                  /\ IF total = 0 THEN rows[i][5] = NaN
                     ELSE RatEq(rows[i][5], delta(rows[i][1]), total)
            /\ \A i, j \in DOMAIN rows : i < j => rows[i][4].v >= rows[j][4].v
            /\ \A g \in entities \ kept : \A i \in DOMAIN rows : delta(g) <= rows[i][4].v

\* one entity has rows in period A only, the other in period B only, the
\* total delta is not 0 and top_n cuts one of the two
C17_Witness ==
    /\ pc = "contributed"
    /\ out.top_n = 1
    /\ Len(out.val.rows) = 1
    /\ out.val.rows[1][5].k = "ratio"
    /\ \E g \in PeriodEntities(df, out.period_a, out.period_b) :
          /\ InPeriod(df, out.period_a) # {}
          /\ \A r \in InPeriod(df, out.period_a) : Col(df, "cie")[r] # g
          /\ \E r \in InPeriod(df, out.period_b) : Col(df, "cie")[r] = g
          /\ out.period_a # out.period_b

\* the columns of a numeric dtype
NumericColumns(d) == {i \in DOMAIN d.cols : d.dtypes[i] \in {"int64", "float64"}}

\* C18: after prep_cie and after prep_lsn no numeric column of the returned
\* table contains a missing value: every missing or uncoercible numeric cell
\* has been replaced by 0.
C18_NoMissingNumeric ==
    (pc = "prepared" /\ raw.family \in {"cie", "lsn"}) =>
        /\ \A i \in NumericColumns(df) : \A r \in DOMAIN df.rows : df.rows[r][i].k = "num"
        /\ \A i \in DOMAIN out.cols : \A r \in DOMAIN out.rows :
              (StrLower(out.cols[i]) \in SeqToSet(Numeric(raw.family))
                  /\ ToNumericCell(out.rows[r][i]) = NaN)
              => Col(df, StrLower(out.cols[i]))[r] = Num(0)

\* an airline file with a passenger count that is no number beside one that
\* is, and a period that gives no date: the count and the year read 0
C18_Witness ==
    /\ pc = "prepared"
    /\ raw.family = "cie"
    /\ \E r, q \in DOMAIN df.rows :
          /\ Col(out, "CIE_PAX")[r] = Str("-") /\ Col(df, "cie_pax")[r] = Num(0)
          /\ Col(df, "cie_pax")[q] = Num(3)
          /\ Col(df, "date")[r] = NaT /\ Col(df, "year")[r] = Num(0)

\* C19: each of the three preparers replaces the sentinel empty tokens (empty
\* string, whitespace, '-', 'nan', 'None') by a missing value in every
\* column, after the date derivation and before the numeric coercion.
C19_SentinelsReplaced ==
    pc = "prepared" =>
        \A r \in DOMAIN df.rows : \A i \in DOMAIN df.cols :
            ~(df.rows[r][i].k = "str" /\ df.rows[r][i].v \in MissingTokens)

\* the columns a preparer derives itself
SelfDerived ==
    { "date", "year", "month", "quarter", "annee", "mois", "passagers_total",
      "fret_total", "has_geo", "route_dir", "route_pair" }

\* C20: every preparer attaches as metadata the validation report of the
\* final prepared table; no column the preparer itself derives is listed
\* under extras; for an input whose normalized columns are exactly the
\* expected columns of the family, missing and extras are empty.
C20_ValidationReport ==
    pc = "prepared" =>
        LET report == df.attrs.schema_issues
        IN  /\ report = validate_schema(df, Expected(raw.family))
            /\ SeqToSet(report.extras) \cap SelfDerived = {}
            /\ SeqToSet(normalize_cols(out).cols) = SeqToSet(Expected(raw.family))
                  => (report.missing = <<>> /\ report.extras = <<>>)

\* a route file that carries exactly the expected columns: the derived route
\* keys and date fields are reported as derived
C20_Witness ==
    /\ pc = "prepared"
    /\ raw = [family |-> "lsn", layout |-> "full"]
    /\ df.rows # <<>>
    /\ SeqToSet(normalize_cols(out).cols) = SeqToSet(LSN_EXPECTED)
    /\ {"route_pair", "date"} \subseteq SeqToSet(df.attrs.schema_issues.derived)

(***************************************************************************)
(* SpecDates: add_date_fields and _derive_date on tables that carry any    *)
(* combination of the date sources (annee, mois, anmois, annee_mois), each *)
(* source naming another month, and possibly a date column of their own.   *)
(***************************************************************************)
DateSources == <<"annee", "mois", "anmois", "annee_mois", "date">>

\* the headers: the sources at the places of a bit pattern, then a count
SourceCols(present) ==
    SelectSeq(DateSources, LAMBDA c : c \in present) \o <<"cie_pax">>

\* one record: its month in the (annee, mois) pair and its month in anmois;
\* annee_mois names month 5 and the date column month 7 of the baseline year
SourceRecs == { <<m, p>> : m \in {1, 2}, p \in {3, 4} }

SourceCell(c, rec) ==
    CASE c = "annee"      -> Num(BaselineYear)
      [] c = "mois"       -> Num(rec[1])
      [] c = "anmois"     -> Num(BaselineYear * 100 + rec[2])
      [] c = "annee_mois" -> Num(BaselineYear * 100 + 5)
      [] c = "date"       -> Ts(BaselineYear, 7)
      [] OTHER            -> Num(1)

SourceTable(present, recs) ==
    LET cols == SourceCols(present)
    IN  DataFrame(cols, [r \in DOMAIN recs |->
                            [i \in DOMAIN cols |-> SourceCell(cols[i], recs[r])]])

InitDates ==
    /\ raw \in SUBSET SeqToSet(DateSources)
    /\ \E n \in 0..MaxRows : \E recs \in [1..n -> SourceRecs] :
          /\ "date" \in raw => n > 0
          /\ df = SourceTable(raw, recs)
    /\ out = EmptyFrame
    /\ pc = "table"

DateFields ==
    /\ pc = "table"
    /\ out' = df
    /\ df' = add_date_fields(df)
    /\ pc' = "dated"
    /\ UNCHANGED raw

DeriveDate ==
    /\ pc = "table"
    /\ out' = df
    /\ df' = derive_date(df)
    /\ pc' = "derived"
    /\ UNCHANGED raw

NextDates == DateFields \/ DeriveDate

SpecDates == InitDates /\ [][NextDates]_vars

\* the source the policy names for a table with these columns
FirstSource(present) ==
    IF {"annee", "mois"} \subseteq present THEN "annee, mois"
    ELSE IF "anmois" \in present THEN "anmois"
    ELSE IF "annee_mois" \in present THEN "annee_mois"
    ELSE "none"

\* the month the first source of the table names in row r
SourceMonth(d, r) ==
    LET src == FirstSource(SeqToSet(d.cols))
    IN  IF src = "annee, mois"
        THEN Ts(Col(d, "annee")[r].v, Col(d, "mois")[r].v)
        ELSE Ts(Col(d, src)[r].v \div 100, Col(d, src)[r].v % 100)

\* the date of every row is the month of the first source
FromFirstSource ==
    /\ HasCol(df, "date")
    /\ \A r \in DOMAIN df.rows :
          /\ Col(df, "date")[r] = SourceMonth(out, r)
          /\ pc = "dated" => /\ Col(df, "year")[r] = Num(Col(df, "date")[r].y)
                             /\ Col(df, "month")[r] = Num(Col(df, "date")[r].m)

PeriodFields == {"date", "year", "month", "quarter"}

\* C21 as stated: date derivation order. add_date_fields takes the (annee,
\* mois) pair if both columns exist, else anmois, else annee_mois, and only the
\* first match; when none is present no date column and no year, month or
\* quarter column is added.
C21_DerivationOrder_AsStated ==
    pc \in {"dated", "derived"} =>
        IF FirstSource(SeqToSet(out.cols)) # "none" THEN FromFirstSource
        ELSE (SeqToSet(df.cols) \ SeqToSet(out.cols)) \cap PeriodFields = {}

\* C21: date derivation order. add_date_fields takes the (annee, mois) pair
\* if both columns exist, else anmois, else annee_mois, and only the first
\* match; when none is present no date column is added, and year, month and
\* quarter are added only to a table that brings a date column of its own.
C21_DerivationOrder ==
    pc \in {"dated", "derived"} =>
        IF FirstSource(SeqToSet(out.cols)) # "none" THEN FromFirstSource
        ELSE /\ HasCol(df, "date") = HasCol(out, "date")
             /\ (pc = "derived" \/ ~HasCol(out, "date")) => df = out
             /\ (pc = "dated" /\ HasCol(out, "date")) =>
                   /\ Col(df, "date") = Col(out, "date")
                   /\ SeqToSet(df.cols) \ SeqToSet(out.cols) = PeriodFields \ {"date"}

\* a table with mois but no annee, and with both packed columns: the date is
\* the month anmois names
C21_Witness ==
    /\ pc = "dated"
    /\ raw = {"mois", "anmois", "annee_mois"}
    /\ \E r \in DOMAIN df.rows : Col(df, "date")[r] = Ts(BaselineYear, 3)

(***************************************************************************)
(* SpecPacked: add_date_fields on a table whose only date source is a      *)
(* packed column, the packed values having 4 to 8 digits, separators or    *)
(* nothing at all.                                                         *)
(***************************************************************************)
PackedCells ==
    { Num(BaselineYear * 100 + 2), Num(BaselineYear * 1000 + 21),
      Num(BaselineYear * 10000 + 211), Num(BaselineYear), Str("2019-02"),
      Str("2019-02-11"), NaN }

InitPacked ==
    /\ raw \in {"anmois", "annee_mois"}
    /\ \E n \in 0..MaxRows : \E cells \in [1..n -> PackedCells] :
          df = ReadCsv(<<raw>>, [r \in DOMAIN cells |-> <<cells[r]>>])
    /\ out = EmptyFrame
    /\ pc = "table"

SplitPacked ==
    /\ pc = "table"
    /\ out' = df
    /\ df' = add_date_fields(df)
    /\ pc' = "dated"
    /\ UNCHANGED raw

NextPacked == SplitPacked

SpecPacked == InitPacked /\ [][NextPacked]_vars

\* the digits of the packed value of row r, left-padded to 6
PackedDigits(r) == ZFill(OnlyDigits(ColAsStr(out, raw)[r]), 6)

\* row r carries the year y and the month m, or no date when they name none
SplitAs(r, y, m) ==
    IF m \in 1..12 /\ y * 12 + m \in MinMonth..MaxMonth
    THEN /\ Col(df, "date")[r] = Ts(y, m)
         /\ Col(df, "annee")[r] = Num(y)
         /\ Col(df, "mois")[r] = Num(m)
    ELSE Col(df, "date")[r] = NaT

\* C22 as stated: packed year-month split. For every packed value,
\* add_date_fields strips the non-digit characters, left-pads the digits with
\* zeros to 6, and takes the first 4 digits as the year and the last 2 digits
\* as the month, for digit strings longer than 6 digits too.
C22_PackedSplit_AsStated ==
    pc = "dated" =>
        \A r \in DOMAIN df.rows :
            LET s == PackedDigits(r)
            IN  SplitAs(r, StrToNat(SubSeq(s, 1, 4)), StrToNat(SubSeq(s, Len(s) - 1, Len(s))))

\* C22: packed year-month split. For every packed value, add_date_fields
\* strips the non-digit characters, left-pads the digits with zeros to 6, and
\* takes the first 4 digits as the year and the fifth and sixth digit as the
\* month; the digits after the sixth are ignored.
C22_PackedSplit ==
    pc = "dated" =>
        \A r \in DOMAIN df.rows :
            LET s == PackedDigits(r)
            IN  SplitAs(r, StrToNat(SubSeq(s, 1, 4)), StrToNat(SubSeq(s, 5, 6)))

\* a packed value of 7 digits: its month is the fifth and sixth digit
C22_Witness ==
    /\ pc = "dated"
    /\ \E r \in DOMAIN df.rows :
          /\ out.rows[r][1] = Num(BaselineYear * 1000 + 21)
          /\ Len(PackedDigits(r)) = 7
          /\ Col(df, "date")[r] = Ts(BaselineYear, 2)

\* the cell b is what preparation makes of the cell a
CellKept(a, b) ==
    \/ b = a
    \/ b = ToNumericCell(a)
    \/ ToNumericCell(a) = NaN /\ b \in {NaN, Num(0)}

\* C23: rows are never dropped by preparation. add_date_fields and each
\* preparer return exactly as many rows as they were given, in the same
\* order; a row whose date cannot be parsed is kept with a null date.
C23_RowsKept ==
    pc \in {"dated", "prepared"} =>
        /\ Len(df.rows) = Len(out.rows)
        /\ SubSeq(df.cols, 1, Len(out.cols)) = normalize_cols(out).cols
        /\ \A r \in DOMAIN out.rows : \A i \in DOMAIN out.cols :
              CellKept(out.rows[r][i], df.rows[r][i])

\* an airport file of two different records, the first without a readable
\* period: it is the first row of the prepared table and its date is null
C23_Witness ==
    /\ pc = "prepared"
    /\ raw = [family |-> "apt", layout |-> "packed"]
    /\ Len(df.rows) = 2
    /\ Col(out, "ANNEE_MOIS")[1] = Str("-") /\ Col(df, "date")[1] = NaT
    /\ Col(out, "ZONE")[1] = Str("-") /\ Col(df, "zone")[2] = Str("A")
    /\ Col(df, "date")[2] = Ts(BaselineYear, 2)

(***************************************************************************)
(* SpecSeries: metrics.mom and metrics.recent_yoy on a date-keyed series   *)
(* (one row per date, no null date) such as kpis_apt builds: a short one   *)
(* in any row order, or one of 13 or 14 months in which a month may have   *)
(* no row.                                                                 *)
(***************************************************************************)
SeriesCols == <<"date", "passagers_total">>

\* the Timestamp of the month at the place n in time
MonthAt(n) == Ts((n - 1) \div 12, ((n - 1) % 12) + 1)

\* the latest month of a long series
LastMonth == (BaselineYear + 1) * 12 + 2

\* the short series: up to MaxShareRows rows of different months, in any order
ShortSeries ==
    UNION { { DataFrame(SeriesCols, [i \in 1..n |-> <<MonthAt(BaselineYear * 12 + ms[i]), vs[i]>>]) :
                ms \in {q \in [1..n -> 1..(MaxShareRows + 1)] :
                           \A i, j \in 1..n : i # j => q[i] # q[j]},
                vs \in [1..n -> {Num(x) : x \in 0..MaxVal} \cup {NaN}] } :
            n \in 0..MaxShareRows }

\* a long series in date order: the months from YoyWindow back to the latest
\* one except the month gap (0: none), worth 1 but for the latest month, the
\* month 12 months earlier and the month before that
LongSeries ==
    { DataFrame(SeriesCols,
          LET months == SelectSeq([i \in 1..(YoyWindow + 1) |-> LastMonth - YoyWindow - 1 + i],
                                  LAMBDA n : n # LastMonth - gap)
          IN  [i \in DOMAIN months |->
                  << MonthAt(months[i]),
                     Num(CASE months[i] = LastMonth -> last
                           [] months[i] = LastMonth - YoyWindow + 1 -> prev
                           [] months[i] = LastMonth - YoyWindow -> before
                           [] OTHER -> 1) >>]) :
        gap \in {0} \cup (1..(YoyWindow - 2)) \cup {YoyWindow},
        last \in 1..MaxVal, prev \in 0..MaxVal, before \in {1, MaxVal + 1} }

InitSeries ==
    /\ raw \in {"short", "long"}
    /\ df \in IF raw = "short" THEN ShortSeries ELSE LongSeries
    /\ out = EmptyFrame
    /\ pc = "series"

Mom ==
    /\ pc = "series"
    /\ out' = [fn |-> "mom", val |-> mom(df, "passagers_total")]
    /\ pc' = "measured"
    /\ UNCHANGED <<raw, df>>

RecentYoy ==
    /\ pc = "series"
    /\ out' = [fn |-> "recent_yoy", val |-> recent_yoy(df, "passagers_total")]
    /\ pc' = "measured"
    /\ UNCHANGED <<raw, df>>

NextSeries == Mom \/ RecentYoy

SpecSeries == InitSeries /\ [][NextSeries]_vars

\* the months of the series, and the value at a month
SeriesMonths == {DateKey(Col(df, "date")[r]) : r \in DOMAIN df.rows}

ValueAt(n) ==
    Col(df, "passagers_total")[CHOOSE r \in DOMAIN df.rows : DateKey(Col(df, "date")[r]) = n]

\* the latest month and the latest month before it
Latest == MaxOf(SeriesMonths)

Previous == MaxOf(SeriesMonths \ {Latest})

MomDefined ==
    /\ Cardinality(SeriesMonths) >= 2
    /\ ValueAt(Latest).k = "num"
    /\ ValueAt(Previous).k = "num" /\ ValueAt(Previous).v # 0

\* C24 as stated: month_over_month. For every date-keyed series with at
\* least 2 points mom returns (last / previous) - 1, last and previous being
\* the values at the two latest dates whatever the row order; it returns
\* undefined when previous is zero or missing or the series has fewer than 2
\* points.
C24_MonthOverMonth_AsStated ==
    (pc = "measured" /\ out.fn = "mom") =>
        IF MomDefined
        THEN RatEq(out.val, ValueAt(Latest).v - ValueAt(Previous).v, ValueAt(Previous).v)
        ELSE out.val = NaN

\* C24: month_over_month. For every date-keyed series with at least 2 points
\* mom returns ((last / previous) - 1) * 100, a percentage, last and previous
\* being the values at the two latest dates whatever the row order; it
\* returns undefined when previous is zero or missing, when last is missing,
\* or when the series has fewer than 2 points.
C24_MonthOverMonth ==
    (pc = "measured" /\ out.fn = "mom") =>
        IF MomDefined
        THEN RatEq(out.val, (ValueAt(Latest).v - ValueAt(Previous).v) * 100,
                   ValueAt(Previous).v)
        ELSE out.val = NaN

\* a series of three months whose rows come latest first
C24_Witness ==
    /\ pc = "measured" /\ out.fn = "mom"
    /\ Len(df.rows) = 3
    /\ DateKey(df.rows[1][1]) = Latest
    /\ DateKey(df.rows[3][1]) = Previous
    /\ MomDefined
    /\ ValueAt(Latest) # ValueAt(Previous)
    /\ out.val.k = "ratio"

\* C25: recent_yoy compares the value at the latest date with the value 12
\* months earlier (the same calendar month of the previous year) for every
\* date-keyed series kpis_apt, kpis_cie and kpis_lsn give it, series in which
\* some months have no row included; it returns undefined when the series has
\* fewer than 13 points or the earlier value is zero.
C25_RecentYoy ==
    (pc = "measured" /\ out.fn = "recent_yoy") =>
        IF Len(df.rows) < YoyWindow THEN out.val = NaN
        ELSE (Latest - YoyWindow + 1) \in SeriesMonths =>
                out.val = PctChange(ValueAt(Latest), ValueAt(Latest - YoyWindow + 1))

(***************************************************************************)
(* SpecTs: the time-series aggregations on a prepared table, by month,     *)
(* quarter and year.                                                       *)
(***************************************************************************)
Granularities == {"M", "Q", "Y"}

\* the header of a file: a packed year-month, a label and a count, or the
\* header without the year-month, or without the count
TsLayouts == {"packed", "no_date", "no_value"}

TsCols(family, layout) ==
    LET cols == CASE family = "apt" -> <<"ANNEE_MOIS", "ZONE", "MOUVEMENTS_PASSAGERS">>
                  [] family = "cie" -> <<"ANMOIS", "CIE_NOM", "CIE_PAX">>
                  [] family = "lsn" -> <<"ANMOIS", "LSN_1", "LSN_PAX">>
    IN  CASE layout = "packed"   -> cols
          [] layout = "no_date"  -> SubSeq(cols, 2, 3)
          [] layout = "no_value" -> SubSeq(cols, 1, 2)

\* two months of one quarter, a month of another quarter, a month of the next
\* year, and a year-month that cannot be read
TsMonths ==
    { Num(BaselineYear * 100 + 2), Num(BaselineYear * 100 + 3),
      Num(BaselineYear * 100 + 5), Num((BaselineYear + 1) * 100 + 1), Str("-") }

TsRecs == { <<<<NaN, NaN, p>>, Str("A"), Num(x)>> : p \in TsMonths, x \in 1..MaxRows }

TsTable(family, layout, recs) ==
    LET cols == TsCols(family, layout)
    IN  ReadCsv(cols, [r \in DOMAIN recs |->
                          [i \in DOMAIN cols |-> FileCell(family, cols[i], recs[r])]])

InitTs ==
    /\ raw \in [family : {"apt", "cie", "lsn"}, layout : TsLayouts]
    /\ \E n \in 0..MaxShareRows : \E recs \in [1..n -> TsRecs] :
          df = prep(raw.family, TsTable(raw.family, raw.layout, recs))
    /\ out = EmptyFrame
    /\ pc = "prepared"

AggAptTimeseries ==
    /\ pc = "prepared" /\ raw.family = "apt"
    /\ \E freq \in Granularities :
          out' = [freq |-> freq, ts |-> agg_apt_timeseries(df, freq)]
    /\ pc' = "aggregated"
    /\ UNCHANGED <<raw, df>>

AggCieTimeseries ==
    /\ pc = "prepared" /\ raw.family = "cie"
    /\ \E freq \in Granularities :
          out' = [freq |-> freq, ts |-> agg_cie_timeseries(df, freq)]
    /\ pc' = "aggregated"
    /\ UNCHANGED <<raw, df>>

AggLsnTimeseries ==
    /\ pc = "prepared" /\ raw.family = "lsn"
    /\ \E freq \in Granularities :
          out' = [freq |-> freq, ts |-> agg_lsn_timeseries(df, "lsn_pax", freq)]
    /\ pc' = "aggregated"
    /\ UNCHANGED <<raw, df>>

NextTs == AggAptTimeseries \/ AggCieTimeseries \/ AggLsnTimeseries

SpecTs == InitTs /\ [][NextTs]_vars

\* the value columns the aggregation of the family looks for
ValueCols(family) ==
    CASE family = "apt" -> AptSeriesCols
      [] family = "cie" -> CieSeriesCols
      [] family = "lsn" -> <<"lsn_pax">>

\* the calendar bucket a period date falls in
Bucket(c, freq) ==
    (c.y * 12 + c.m - 1) \div (CASE freq = "M" -> 1 [] freq = "Q" -> 3 [] freq = "Y" -> 12)

\* C26: time_series ordering. For every non-empty prepared table and
\* granularity month, quarter or year, agg_apt_timeseries, agg_cie_timeseries
\* and agg_lsn_timeseries return rows whose period dates are strictly
\* ascending (one row per calendar bucket, no bucket repeated), and return an
\* empty table when the date column or all value columns are absent.
C26_SeriesOrdered ==
    pc = "aggregated" =>
        IF ~HasCol(df, "date") \/ PresentCols(df, ValueCols(raw.family), FALSE) = <<>>
        THEN out.ts = EmptyFrame
        ELSE df.rows # <<>> =>
                /\ ~IsRaise(out.ts)
                /\ LET dates == Col(out.ts, "date")
                   IN  /\ \A i \in DOMAIN dates : dates[i].k \in {"ts", "month_end"}
                       /\ \A i, j \in DOMAIN dates :
                             i < j => Bucket(dates[i], out.freq) < Bucket(dates[j], out.freq)

\* C28: time-series conservation. For every prepared table and every
\* granularity (M, Q, Y) the sum over all buckets of each value column of the
\* aggregated time series equals the sum of that column over the input rows
\* that have a non-null date.
C28_SeriesConserved ==
    pc = "aggregated" =>
        /\ ~IsRaise(out.ts)
        /\ \A i \in DOMAIN out.ts.cols :
              out.ts.cols[i] # "date" =>
                 SumOver(DOMAIN out.ts.rows, Col(out.ts, out.ts.cols[i]))
                   = SumOver({r \in DOMAIN df.rows : ~IsNull(Col(df, "date")[r])},
                             Col(df, out.ts.cols[i]))

(***************************************************************************)
(* prep.py: the filters                                                    *)
(***************************************************************************)
\* the rows of d that keep(row) holds for: df[mask].copy(), attrs carried over
Masked(d, keep(_)) == [d EXCEPT !.rows = SelectSeq(d.rows, keep)]

\* a date as one number, for the comparison with a bound
DayKey(c) == (c.y * 12 + c.m) * 32 + c.d

\* a comparison with a null date is false; a textual date does not compare
\* with a Timestamp
filter_by_date(d, start, end) ==
    IF ~HasCol(d, "date") THEN d
    ELSE IF \E r \in DOMAIN d.rows : Col(d, "date")[r].k \notin {"ts", "nat"}
    THEN Raise("TypeError")
    ELSE Masked(d, LAMBDA row :
                      LET c == row[ColIdx(d, "date")]
                      IN  c.k = "ts" /\ DayKey(start) <= DayKey(c) /\ DayKey(c) <= DayKey(end))

filter_by_airports(d, airports) ==
    IF airports = {} THEN d
    ELSE IF HasCol(d, "code_aeroport")
    THEN Masked(d, LAMBDA row : row[ColIdx(d, "code_aeroport")] \in airports)
    ELSE IF HasCol(d, "lsn_1") /\ HasCol(d, "lsn_2")
    THEN Masked(d, LAMBDA row : \/ row[ColIdx(d, "lsn_1")] \in airports
                                \/ row[ColIdx(d, "lsn_2")] \in airports)
    ELSE d

filter_by_airlines(d, airlines) ==
    IF airlines = {} \/ ~HasCol(d, "cie") THEN d
    ELSE Masked(d, LAMBDA row : row[ColIdx(d, "cie")] \in airlines)

(***************************************************************************)
(* SpecFrames: the tables as objects. df is the sequence of the table      *)
(* objects alive, a call takes one of them as its argument, and a table it *)
(* returns is one more object. raw.table is the file's table as read.      *)
(***************************************************************************)
MaxCalls == 2

\* the writes of a call land on the argument itself
ReturnInPlace(objs, a, result) == [objs EXCEPT ![a] = result]

\* every function of prep.py, io.py and metrics.py rebinds its parameter to a
\* copy (df = df.copy(), d = df.copy()), a selection (df[mask].copy()) or an
\* aggregate before its first write: the writes land on a new object
ReturnNew(objs, a, result) == Append(objs, result)

IsTable(x) == "cols" \in DOMAIN x

\* the call fn(df[a], ...) gave result: a table (a new object), or a value or
\* an exception (no object)
Call(fn, a, result) ==
    /\ pc < MaxCalls
    /\ df' = IF IsTable(result) THEN ReturnNew(df, a, result) ELSE df
    /\ out' = [fn |-> fn, arg |-> a, val |-> result]
    /\ pc' = pc + 1
    /\ UNCHANGED raw

FrameCols(family) ==
    CASE family = "apt" -> <<"ANNEE_MOIS", "CODE_AEROPORT", "PASSAGERS_DEPART",
                             "PASSAGERS_ARRIVEE">>
      [] family = "cie" -> <<"ANMOIS", "CIE", "CIE_PAX">>
      [] family = "lsn" -> <<"ANMOIS", "LSN_1", "LSN_2", "LSN_PAX">>

\* a month of the baseline year with a count, one with a count that is a
\* dash, and a year-month that cannot be read
FrameRecs ==
    { <<<<NaN, NaN, Num(BaselineYear * 100 + 2)>>, Str("A"), Num(3)>>,
      <<<<NaN, NaN, Num(BaselineYear * 100 + 3)>>, Str("B"), Str("-")>>,
      <<<<NaN, NaN, Str("-")>>, Str("A"), Num(1)>> }

FrameTable(family, recs) ==
    LET cols == FrameCols(family)
    IN  ReadCsv(cols, [r \in DOMAIN recs |->
                          [i \in DOMAIN cols |-> FileCell(family, cols[i], recs[r])]])

InitFrames ==
    /\ \E family \in Families, n \in 1..MaxRows : \E recs \in [1..n -> FrameRecs] :
          raw = [family |-> family, table |-> FrameTable(family, recs)]
    /\ df = <<raw.table>>
    /\ out = EmptyFrame
    /\ pc = 0

CallNormalizeCols ==
    \E a \in DOMAIN df : Call("normalize_cols", a, normalize_cols(df[a]))

CallToNumeric ==
    \E a \in DOMAIN df : Call("to_numeric", a, to_numeric(df[a], Numeric(raw.family)))

CallAddDateFields ==
    \E a \in DOMAIN df : Call("add_date_fields", a, add_date_fields(df[a]))

CallPrep ==
    \E a \in DOMAIN df : Call("prep", a, prep(raw.family, df[a]))

CallFilter ==
    \E a \in DOMAIN df :
        \/ Call("filter_by_date", a,
                filter_by_date(df[a], Ts(BaselineYear, 1), Ts(BaselineYear, 2)))
        \/ \E codes \in {{}, {Str("A")}} :
              Call("filter_by_airports", a, filter_by_airports(df[a], codes))
        \/ \E codes \in {{}, {Str("A")}} :
              Call("filter_by_airlines", a, filter_by_airlines(df[a], codes))

\* the value column of the family, where the table has it, holds numbers
\* (summing a textual column is left out)
Summable(d, family) ==
    HasCol(d, ValueCol(family)) => Dtype(d, ValueCol(family)) \in {"int64", "float64"}

CallTimeseries ==
    \E a \in DOMAIN df, freq \in Granularities :
        Summable(df[a], raw.family) /\
        Call("agg_timeseries", a,
             CASE raw.family = "apt" -> agg_apt_timeseries(df[a], freq)
               [] raw.family = "cie" -> agg_cie_timeseries(df[a], freq)
               [] raw.family = "lsn" -> agg_lsn_timeseries(df[a], "lsn_pax", freq))

\* the metrics are called on a table that has the value column
CallMeasure ==
    \E a \in DOMAIN df :
        /\ HasCol(df[a], ValueCol(raw.family)) /\ Summable(df[a], raw.family)
        /\ \/ Call("mom", a, mom(df[a], ValueCol(raw.family)))
           \/ Call("recent_yoy", a, recent_yoy(df[a], ValueCol(raw.family)))
           \/ Call("hhi_concentration", a,
                   hhi_concentration(df[a], EntityCol(raw.family), ValueCol(raw.family)))
           \/ /\ raw.family = "apt"
              /\ \E top \in TopChoices(df[a]) : Call("kpis_apt", a, kpis_apt(df[a], top))

NextFrames ==
    \/ CallNormalizeCols \/ CallToNumeric \/ CallAddDateFields \/ CallPrep
    \/ CallFilter \/ CallTimeseries \/ CallMeasure

SpecFrames == InitFrames /\ [][NextFrames]_vars

C29_RederivedDates ==
    pc = "apt_prepared" =>
        LET loaded == load_apt_processed(raw)
        IN  (~IsRaise(loaded) /\ HasCol(loaded, "date")) =>
               Col(df, "date") = Col(loaded, "date")

(***************************************************************************)
(* SpecPrep, continued: the period fields of a row without a date          *)
(***************************************************************************)
\* the rows of the prepared table whose date is null
Undated == IF HasCol(df, "date")
           THEN {r \in DOMAIN df.rows : Col(df, "date")[r] = NaT} ELSE {}

\* C30: in the output of prep_cie and prep_lsn the zero-fill of the numeric
\* columns also covers the derived period fields: every row whose date is
\* null carries year = 0 and month = 0 (and annee = 0, mois = 0 when these
\* were derived), so the yearly grouping of such a table contains a year-0
\* group whenever a date failed to parse.
C30_ZeroPeriod ==
    (pc = "prepared" /\ raw.family \in {"cie", "lsn"}) =>
        /\ \A r \in Undated :
              /\ Col(df, "year")[r] = Num(0) /\ Col(df, "month")[r] = Num(0)
              /\ raw.layout = "packed" =>
                    Col(df, "annee")[r] = Num(0) /\ Col(df, "mois")[r] = Num(0)
        /\ Undated # {} =>
              Num(0) \in DOMAIN yearly_sum(df, ValueCol(raw.family)).sums

\* a route file with the packed period, one row parsed and one not: the
\* yearly totals hold the year 0 beside the baseline year
C30_Witness ==
    /\ pc = "prepared"
    /\ raw = [family |-> "lsn", layout |-> "packed"]
    /\ Len(df.rows) = 2
    /\ Col(df, "date")[1] = Ts(BaselineYear, 2)
    /\ Col(df, "date")[2] = NaT
    /\ Col(df, "annee")[2] = Num(0)
    /\ DOMAIN yearly_sum(df, "lsn_pax").sums = {Num(0), Num(BaselineYear)}

====
